---- MODULE Spec2Model ----
(***************************************************************************)
(* Model of the rocpy ROC Plus client: the TCP wrapper (TCPClient), the    *)
(* facade (ROCPlusClient: connect, make_opcode_request, validate_response  *)
(* and the typed wrappers) and the response envelope decoder.              *)
(*                                                                         *)
(* Spec        the client used by several asyncio tasks; one step per      *)
(*             stretch of code between two suspension points (await).      *)
(* SpecFacade  one typed wrapper called on one response frame.             *)
(***************************************************************************)
EXTENDS Integers, Sequences, FiniteSets, TLC

VARIABLES
    stream_reader,      \* TCPClient._stream_reader: 0 (None) or a socket id
    stream_writer,      \* TCPClient._stream_writer: 0 (None) or a socket id
    active_request,     \* ROCPlusClient._active_request
    is_async_context_manager, \* ROCPlusClient.is_async_context_manager
    socks,              \* the TCP connections established so far, by socket id
    pc,                 \* per task: where the coroutine is suspended
    op,                 \* per task: the client method the task called
    tsock,              \* per task: the stream object its pending await is on
    wsock,              \* per task: the socket its request frame was handed to
    result,             \* per task: how its call ended
    resp,               \* per task: the Response make_opcode_request returned
    cancelling,         \* per task: cancel() was called on the task
    f_wrapper,          \* SpecFacade: the typed wrapper called
    f_raw,              \* SpecFacade: the bytes read_from_stream returned
    f_stage,            \* SpecFacade: "call", "exchanged", "done"
    f_response,         \* SpecFacade: what make_opcode_request produced
    f_surfaced,         \* SpecFacade: what the wrapper gave its caller
    io_definition,      \* ROCPlusClient.io_definition (flags and io_map)
    i_pc,               \* SpecIO: where initialize_io_definition stands
    i_sent,             \* SpecIO: the requests it has sent, in order
    i_result,           \* SpecIO: the exception that ended it, if any
    i_method,           \* SpecIOMethods: the I/O method that was called
    c_data,             \* SpecCrc: CRC.data, the bytes a CRC is made for
    c_crc,              \* SpecCrc: its crc_value, lsb and msb once read
    c_request,          \* SpecCrc: the request data of a Request
    c_packet,           \* SpecCrc: what Request.to_binary returned
    history_definition, \* ROCPlusClient.history_definition (flag and map)
    h_op,               \* SpecHistory: the history method that was called
    h_pc,               \* SpecHistory: where that call stands
    h_i,                \* SpecHistory: the segment initialize_history_definition is at
    h_point,            \* SpecHistory: the point of that segment it is at
    h_segment_config,   \* SpecHistory: the segment configuration being built
    segment_definitions,\* SpecHistory: the local map of the segments read
    h_sent,             \* SpecHistory: the configuration reads the call has sent
    h_result            \* SpecHistory: how the call ended

clientVars == <<stream_reader, stream_writer, active_request,
                is_async_context_manager, socks, pc, op, tsock, wsock,
                result, resp, cancelling>>
facadeVars == <<f_wrapper, f_raw, f_stage, f_response, f_surfaced>>
ioVars == <<io_definition, i_pc, i_sent, i_result, i_method>>
crcVars == <<c_data, c_crc, c_request, c_packet>>
histVars == <<history_definition, h_op, h_pc, h_i, h_point, h_segment_config,
              segment_definitions, h_sent, h_result>>
vars == <<stream_reader, stream_writer, active_request,
          is_async_context_manager, socks, pc, op, tsock, wsock,
          result, resp, cancelling,
          f_wrapper, f_raw, f_stage, f_response, f_surfaced,
          io_definition, i_pc, i_sent, i_result, i_method,
          c_data, c_crc, c_request, c_packet,
          history_definition, h_op, h_pc, h_i, h_point, h_segment_config,
          segment_definitions, h_sent, h_result>>

----------------------------------------------------------------------------
(* Bounds *)

\* Number of tasks; each task makes one call on the shared client.
NTasks == 3
\* Number of tasks that make a call in Spec, where a call is any of
\* make_opcode_request, open_connection, close_connection and connect().
NCallers == 2
\* Longest response body drawn for SpecFacade.
MaxBody == 4

Tasks == 1..NTasks

Callers == 1..NCallers

----------------------------------------------------------------------------
(* Bytes, CRC and frames *)

RECURSIVE BitXor(_, _, _)
\* a ^ b on n-bit operands.
BitXor(a, b, n) ==
    IF n = 0 THEN 0
    ELSE (((a % 2) + (b % 2)) % 2) + 2 * BitXor(a \div 2, b \div 2, n - 1)

RECURSIVE CrcShift(_, _)
\* The inner loop of CRC.crc_value: k rounds of shift / conditional xor.
CrcShift(crc, k) ==
    IF k = 0 THEN crc
    ELSE CrcShift(IF crc % 2 = 1 THEN BitXor(crc \div 2, 40961, 16)
                                 ELSE crc \div 2,
                  k - 1)

RECURSIVE CrcFrom(_, _, _)
\* The outer loop of CRC.crc_value from byte i on: crc ^= byte, 8 rounds.
\* (crc is a 16-bit value at every step; the test keeps evaluation eager.)
CrcFrom(crc, data, i) ==
    IF i > Len(data) \/ crc \notin 0..65535 THEN crc
    ELSE CrcFrom(CrcShift(BitXor(crc, data[i], 16), 8), data, i + 1)

\* CRC.crc_value as it would be with the register starting at 0.
crc_value_from_zero(data) == CrcFrom(0, data, 1)

\* CRC.crc_value: init 0xFFFF, polynomial 0xA001.
crc_value(data) == CrcFrom(65535, data, 1)

crc_lsb(data) == crc_value(data) % 256

crc_msb(data) == (crc_value(data) \div 256) % 256

\* The client's addressing (roc_address, roc_group, host_address, host_group).
DeviceAddress == [roc_address |-> 2, roc_group |-> 3,
                  host_address |-> 1, host_group |-> 0]

\* A response frame as the device emits it: the header addressed from the
\* roc to the host, opcode, length, body, crc lsb, crc msb.
ResponseFrame(opcode, body) ==
    LET head == <<DeviceAddress.host_address, DeviceAddress.host_group,
                  DeviceAddress.roc_address, DeviceAddress.roc_group,
                  opcode, Len(body)>> \o body
        crc == crc_value(head)
    IN  head \o <<crc % 256, (crc \div 256) % 256>>

\* Python slicing raw[lo:hi] on a 0-based byte string (clamped, never raises).
Slice(raw, lo, hi) ==
    LET h == IF hi < Len(raw) THEN hi ELSE Len(raw)
    IN  IF lo >= h THEN <<>> ELSE SubSeq(raw, lo + 1, h)

\* Python indexing raw[i] on a 0-based byte string, where i < Len(raw).
At(raw, i) == raw[i + 1]

----------------------------------------------------------------------------
(* Response decoding: opcode_models/core.py, opcode_models/opcodes.py *)

\* MessageModels as it would be without its `_7` attribute.
RegisteredOpcodesWithoutClock ==
    {6, 50, 105, 108, 118, 119, 135, 136, 137, 138, 139, 167, 180, 206, 255}

\* MessageModels: the opcodes that have a `_<opcode>` attribute.
RegisteredOpcodes ==
    {6, 7, 50, 105, 108, 118, 119, 135, 136, 137, 138, 139, 167, 180, 206, 255}

\* MessageModels.get_model_by_opcode(opcode).response_data, by class name.
ResponseDataClass(opcode) ==
    CASE opcode = 6   -> "SystemConfigResponseData"
      [] opcode = 7   -> "ReadClockResponseData"
      [] opcode = 50  -> "IOLocationResponseData"
      [] opcode = 105 -> "TodayYestMinMaxResponseData"
      [] opcode = 108 -> "HistoryTagPeriodIndexResponseData"
      [] opcode = 118 -> "AlarmDataResponseData"
      [] opcode = 119 -> "EventDataResponseData"
      [] opcode = 135 -> "SinglePointHistoryResponseData"
      [] opcode = 136 -> "MultiplePointHistoryResponseData"
      [] opcode = 137 -> "DailyHistoryIndexResponseData"
      [] opcode = 138 -> "DailyPeriodicHistoryResponseData"
      [] opcode = 139 -> "HistoryInformationResponseData"
      [] opcode = 167 -> "SinglePointParameterResponseData"
      [] opcode = 180 -> "ParameterResponseData"
      [] opcode = 206 -> "TransactionHistoryResponseData"
      [] opcode = 255 -> "OpcodeErrorResponseData"

\* OpcodeErrorCodes: the error codes that have a `_<code>` attribute.
ErrorCodes ==
    {1, 2, 3, 4, 5, 6, 12, 13, 14, 15, 16, 17, 18, 19, 20, 21, 22, 24, 25,
     29, 30, 31, 32, 33, 34, 50, 51, 52, 61, 62, 63, 77}

\* `data` of a ResponseData that carries none (Python None).
NoneData == [type |-> "None"]

\* An exception leaving a decoder; `exc` is the Python exception class.
Raised(e) == [exc |-> e, cls |-> "", opcode |-> -1, data_length |-> -1,
              data |-> NoneData, device_data |-> DeviceAddress]

\* DeviceData.response_from_binary: bytes 0..3 are host_address, host_group,
\* roc_address, roc_group.
response_from_binary(raw) ==
    [roc_address |-> At(raw, 2), roc_group |-> At(raw, 3),
     host_address |-> At(raw, 0), host_group |-> At(raw, 1)]

\* OpcodeErrorResponseData.data_from_binary: zip(body[::2], body[1::2]).
ErrorPairs(body) ==
    [k \in 1..(Len(body) \div 2) |->
        [error_code |-> body[2 * k - 1], cause_byte_offset |-> body[2 * k]]]

OpcodeError_data_from_binary(raw) ==
    LET pairs == ErrorPairs(Slice(raw, 6, 6 + At(raw, 5)))
    IN  IF \E k \in 1..Len(pairs) : pairs[k].error_code \notin ErrorCodes
        THEN [exc |-> "KeyError", data |-> NoneData]
        ELSE [exc |-> "none",
              data |-> [type |-> "OpcodeErrorData", errors |-> pairs]]

\* IOLocationResponseData.data_from_binary: byte i of the body is the value
\* at physical location i.
IOLocation_data_from_binary(raw) ==
    LET body == Slice(raw, 6, 6 + At(raw, 5))
    IN  [exc |-> "none",
         data |-> [type |-> "IOLocationData",
                   location_data |-> [i \in 0..(Len(body) - 1) |-> body[i + 1]]]]

\* ParameterDataTypes: the size in bytes of `structure` for the data types
\* used below (format strings B, H and 10s).
TypeSize(data_type) ==
    CASE data_type = "UINT8"  -> 1
      [] data_type = "UINT16" -> 2
      [] data_type = "AC10"   -> 10

\* PointTypes: point_type_number -> parameter_number -> data type.  A small
\* registry of two point types; 103 is the analog-input type, whose
\* parameter 0 is POINT_TAG_ID.
PointTypesRegistry ==
    (101 :> (0 :> "AC10" @@ 3 :> "UINT8"))
    @@ (103 :> (0 :> "AC10" @@ 1 :> "UINT8" @@ 2 :> "UINT16" @@ 3 :> "UINT8"
                @@ 21 :> "UINT16"))

\* PointTypes.get_point_type_by_number finds no point type for the number.
PointTypeNotFound(point_type) == point_type \notin DOMAIN PointTypesRegistry

\* PointType.get_parameter_by_number finds no parameter for the number.
ParameterNotFound(point_type, parameter_number) ==
    parameter_number \notin DOMAIN PointTypesRegistry[point_type]

\* A string that is None, among strings held as sequences of character codes.
NoneStr == <<-1>>

RECURSIVE Strip(_)
\* str.strip() on a string of ASCII characters: blanks off both ends.
Strip(str) ==
    IF str = <<>> THEN str
    ELSE IF Head(str) = 32 THEN Strip(Tail(str))
    ELSE IF str[Len(str)] = 32 THEN Strip(SubSeq(str, 1, Len(str) - 1))
    ELSE str

\* struct.unpack of one value followed by TLPValue.validate_value: integers
\* are little-endian, a character array is decoded and stripped.
UnpackValue(data_type, bytes) ==
    CASE data_type = "UINT8"  -> bytes[1]
      [] data_type = "UINT16" -> bytes[1] + 256 * bytes[2]
      [] data_type = "AC10"   -> Strip(bytes)

\* The TLPValue a decoder builds; tag_name is None until it is named.
TLPValue(point_type, logical_number, parameter, value) ==
    [point_type |-> point_type, logical_number |-> logical_number,
     parameter |-> parameter, value |-> value, tag_name |-> NoneStr]

RECURSIVE ParameterValues(_, _, _, _)
\* The loop of ParameterResponseData.data_from_binary: `left` values still
\* to decode from parameter_bytes at start_idx, `values` decoded so far.
ParameterValues(parameter_bytes, start_idx, left, values) ==
    IF left = 0 THEN [exc |-> "none", values |-> values]
    ELSE LET tlp_data == Slice(parameter_bytes, start_idx, start_idx + 3)
         IN  IF Len(tlp_data) # 3
             THEN [exc |-> "struct.error", values |-> values]
             ELSE IF PointTypeNotFound(tlp_data[1])
             THEN [exc |-> "PointTypeNotFoundError", values |-> values]
             ELSE IF ParameterNotFound(tlp_data[1], tlp_data[3])
             THEN [exc |-> "ParameterNotFoundError", values |-> values]
             ELSE LET data_type == PointTypesRegistry[tlp_data[1]][tlp_data[3]]
                      end_idx == start_idx + 3 + TypeSize(data_type)
                      bytes == Slice(parameter_bytes, start_idx + 3, end_idx)
                  IN  IF Len(bytes) # TypeSize(data_type)
                      THEN [exc |-> "struct.error", values |-> values]
                      ELSE ParameterValues(parameter_bytes, end_idx, left - 1,
                               Append(values,
                                      TLPValue(tlp_data[1], tlp_data[2],
                                               tlp_data[3],
                                               UnpackValue(data_type, bytes))))

\* ParameterResponseData.data_from_binary (opcode 180): a count, then for
\* each value its point type, point number, parameter number and bytes.
Parameter_data_from_binary(raw) ==
    LET response_data == Slice(raw, 6, 6 + At(raw, 5))
    IN  IF response_data = <<>>
        THEN [exc |-> "IndexError", data |-> NoneData]
        ELSE LET out == ParameterValues(Tail(response_data), 0,
                                        response_data[1], <<>>)
             IN  IF out.exc # "none"
                 THEN [exc |-> out.exc, data |-> NoneData]
                 ELSE [exc |-> "none",
                       data |-> [type |-> "ParameterData",
                                 value_count |-> response_data[1],
                                 values |-> out.values]]

\* The loop of SinglePointParameterResponseData.data_from_binary as it
\* would be without `start_idx = end_idx`: every value is read at offset 0.
RECURSIVE SinglePointValuesFromStart(_, _, _, _, _, _, _)
SinglePointValuesFromStart(point_type, logical_number, starting, data_bytes, start_idx, i, values) ==
    IF i = 0 THEN [exc |-> "none", values |-> values]
    ELSE IF ParameterNotFound(point_type, starting)
    THEN [exc |-> "ParameterNotFoundError", values |-> values]
    ELSE LET data_type == PointTypesRegistry[point_type][starting]
             end_idx == start_idx + TypeSize(data_type)
             bytes == Slice(data_bytes, start_idx, end_idx)
         IN  IF Len(bytes) # TypeSize(data_type)
             THEN [exc |-> "struct.error", values |-> values]
             ELSE SinglePointValuesFromStart(point_type, logical_number,
                      starting + 1, data_bytes, start_idx, i - 1,
                      Append(values,
                             TLPValue(point_type, logical_number, starting,
                                      UnpackValue(data_type, bytes))))

\* The loop of SinglePointParameterResponseData.data_from_binary: `i` values
\* still to decode, the next one of parameter `starting`, from data_bytes at
\* start_idx.
RECURSIVE SinglePointValues(_, _, _, _, _, _, _)
SinglePointValues(point_type, logical_number, starting, data_bytes, start_idx, i, values) ==
    IF i = 0 THEN [exc |-> "none", values |-> values]
    ELSE IF ParameterNotFound(point_type, starting)
    THEN [exc |-> "ParameterNotFoundError", values |-> values]
    ELSE LET data_type == PointTypesRegistry[point_type][starting]
             end_idx == start_idx + TypeSize(data_type)
             bytes == Slice(data_bytes, start_idx, end_idx)
         IN  IF Len(bytes) # TypeSize(data_type)
             THEN [exc |-> "struct.error", values |-> values]
             ELSE SinglePointValues(point_type, logical_number,
                      starting + 1, data_bytes, end_idx, i - 1,
                      Append(values,
                             TLPValue(point_type, logical_number, starting,
                                      UnpackValue(data_type, bytes))))

\* SinglePointParameterResponseData.data_from_binary (opcode 167): point
\* type, logical number, count and starting parameter, then the values.
SinglePointParameter_data_from_binary(raw) ==
    LET response_data == Slice(raw, 6, 6 + At(raw, 5))
    IN  IF Len(response_data) < 4
        THEN [exc |-> "IndexError", data |-> NoneData]
        ELSE IF PointTypeNotFound(response_data[1])
        THEN [exc |-> "PointTypeNotFoundError", data |-> NoneData]
        ELSE LET out == SinglePointValues(response_data[1], response_data[2],
                            response_data[4],
                            Slice(response_data, 4, Len(response_data)),
                            0, response_data[3], <<>>)
             IN  IF out.exc # "none"
                 THEN [exc |-> out.exc, data |-> NoneData]
                 ELSE [exc |-> "none",
                       data |-> [type |-> "SinglePointParameterData",
                                 point_type |-> response_data[1],
                                 logical_number |-> response_data[2],
                                 number_of_parameters |-> response_data[3],
                                 starting_parameter_number |-> response_data[4],
                                 values |-> out.values]]

RECURSIVE LittleEndian(_)
\* struct.unpack of '<I', '<H' or '<B': the unsigned little-endian value of
\* the bytes.  A float ('<f') is held as the value of its four bytes.
LittleEndian(bytes) ==
    IF bytes = <<>> THEN 0 ELSE Head(bytes) + 256 * LittleEndian(Tail(bytes))

\* struct.unpack of '<h': the signed value of an unsigned 16-bit one.
Signed16(u) == IF u >= 32768 THEN u - 65536 ELSE u

\* An exception leaving the decoder of one record.
RecordError(e) == [exc |-> e]

\* TLPInstance.from_integers: the registered TLP, or the unknown TLP when
\* the point type is not registered; an unknown parameter of a registered
\* point type is not caught.
from_integers(point_type, logical_number, parameter) ==
    IF PointTypeNotFound(point_type)
    THEN [exc |-> "none", point_type |-> point_type,
          logical_number |-> logical_number, parameter |-> parameter,
          data_type |-> "UNKNOWN"]
    ELSE IF ParameterNotFound(point_type, parameter)
    THEN RecordError("ParameterNotFoundError")
    ELSE [exc |-> "none", point_type |-> point_type,
          logical_number |-> logical_number, parameter |-> parameter,
          data_type |-> PointTypesRegistry[point_type][parameter]]

\* TLPValue.from_tlp_instance: class TLPValue defines no such attribute, and
\* neither do TLPInstance or BaseModel, so the lookup raises.
from_tlp_instance(tlp, value) == RecordError("AttributeError")

\* AlarmTypes.get_alarm_from_binary on the bytes of one record: the type
\* byte (bit 7 is_srbx, bit 6 condition, bits 5..0 the type code),
\* get_alarm_type_by_code, the timestamp, then <alarm type>.from_binary.
get_alarm_from_binary(data) ==
    IF data = <<>> THEN RecordError("IndexError")
    ELSE IF data[1] % 64 \notin 0..4 THEN RecordError("AlarmTypeNotFoundError")
    ELSE IF Len(data) < 5 THEN RecordError("struct.error")
    ELSE LET code == data[1] % 64
             alarm == [exc |-> "none", alarm_type_code |-> code,
                       is_srbx |-> (data[1] \div 128) % 2 = 1,
                       condition |-> (data[1] \div 64) % 2,
                       timestamp |-> LittleEndian(Slice(data, 1, 5))]
             value == [value |-> LittleEndian(Slice(data, 19, 23))]
         IN  CASE code = 0 -> alarm
               [] code = 1 ->
                    IF Len(data) < 6 THEN RecordError("IndexError")
                    ELSE IF data[6] \notin 0..33 THEN RecordError("ValueError")
                    ELSE IF Len(data) < 9 THEN RecordError("IndexError")
                    ELSE LET tlp == from_integers(data[7], data[8], data[9])
                         IN  IF tlp.exc # "none" THEN tlp
                             ELSE IF Len(data) < 23 THEN RecordError("struct.error")
                             ELSE alarm @@ value
                                  @@ [alarm_code |-> data[6], tlp |-> tlp,
                                      alarm_description |-> Slice(data, 9, 19)]
               [] code = 2 ->
                    IF Len(data) < 6 THEN RecordError("IndexError")
                    ELSE IF Len(data) < 23 THEN RecordError("struct.error")
                    ELSE alarm @@ value
                         @@ [fst |-> data[6],
                             alarm_description |-> Slice(data, 6, 19)]
               [] code = 3 ->
                    IF Len(data) < 23 THEN RecordError("struct.error")
                    ELSE alarm @@ [alarm_description |-> Slice(data, 5, 23)]
               [] code = 4 ->
                    IF Len(data) < 23 THEN RecordError("struct.error")
                    ELSE alarm @@ value
                         @@ [alarm_description |-> Slice(data, 5, 19)]

\* EventDataTypeDict: the struct size of the data type of each event
\* data-type code 0..17.
EventDataTypeSize ==
    [c \in 0..17 |->
        <<1, 1, 2, 4, 1, 2, 4, 4, 3, 3, 7, 10, 12, 20, 30, 40, 8, 4>>[c + 1]]

\* SystemEventTypeEnum and UserEventTypeEnum: the values either enumeration
\* declares (both declare the same ones).
EventTypeEnumValues ==
    {144, 145, 146, 147, 148, 150, 154, 155, 200, 248, 249, 250, 251, 252,
     253, 254}

\* EventTypes.get_event_from_binary on the bytes of one record:
\* get_event_type_by_code on byte 0, the timestamp, then
\* <event type>.from_binary.
get_event_from_binary(data) ==
    IF data = <<>> THEN RecordError("IndexError")
    ELSE IF data[1] \notin 0..7 THEN RecordError("EventTypeNotFoundError")
    ELSE IF Len(data) < 5 THEN RecordError("struct.error")
    ELSE LET code == data[1]
             event == [exc |-> "none", event_type_code |-> code,
                       timestamp |-> LittleEndian(Slice(data, 1, 5))]
             tlp == from_integers(data[9], data[10], data[11])
         IN  CASE code = 0 -> event
               [] code = 1 ->
                    IF Len(data) < 8 THEN RecordError("struct.error")
                    ELSE IF Len(data) < 11 THEN RecordError("IndexError")
                    ELSE IF tlp.exc # "none" THEN tlp
                    ELSE IF Len(data) < 12 THEN RecordError("IndexError")
                    ELSE IF data[12] \notin DOMAIN EventDataTypeSize
                    THEN RecordError("KeyError")
                    ELSE LET size == EventDataTypeSize[data[12]]
                             new_value == Slice(data, 12, 12 + size)
                             new_value_obj ==
                                 from_tlp_instance(tlp, LittleEndian(new_value))
                             old_value == Slice(data, 16, 16 + size)
                             old_value_obj ==
                                 from_tlp_instance(tlp,
                                     IF size > 4 THEN -1
                                     ELSE LittleEndian(old_value))
                         IN  IF Len(new_value) # size
                             THEN RecordError("struct.error")
                             ELSE IF new_value_obj.exc # "none" THEN new_value_obj
                             ELSE IF size <= 4 /\ Len(old_value) # size
                             THEN RecordError("struct.error")
                             ELSE IF old_value_obj.exc # "none" THEN old_value_obj
                             ELSE event
                                  @@ [operator_id |-> Slice(data, 5, 8),
                                      tlp |-> tlp, data_type |-> data[12],
                                      new_value |-> new_value_obj,
                                      old_value |-> old_value_obj]
               [] code = 2 ->
                    IF Len(data) < 6 THEN RecordError("IndexError")
                    ELSE IF data[6] \notin EventTypeEnumValues
                    THEN RecordError("ValueError")
                    ELSE IF Len(data) < 22 THEN RecordError("struct.error")
                    ELSE event @@ [event_code |-> data[6],
                                   event_description |-> Slice(data, 6, 22)]
               [] code = 3 ->
                    IF Len(data) < 6 THEN RecordError("IndexError")
                    ELSE IF Len(data) < 20 THEN RecordError("struct.error")
                    ELSE event @@ [fst |-> data[6],
                                   value |-> LittleEndian(Slice(data, 6, 10)),
                                   event_description |-> Slice(data, 10, 20)]
               [] code = 4 ->
                    IF Len(data) < 8 THEN RecordError("struct.error")
                    ELSE IF Len(data) < 9 THEN RecordError("IndexError")
                    ELSE IF data[9] \notin EventTypeEnumValues
                    THEN RecordError("ValueError")
                    ELSE IF Len(data) < 22 THEN RecordError("struct.error")
                    ELSE event @@ [operator_id |-> Slice(data, 5, 8),
                                   event_code |-> data[9],
                                   event_description |-> Slice(data, 9, 22)]
               [] code \in {5, 6} ->
                    IF Len(data) < 9 THEN RecordError("struct.error")
                    ELSE event @@ [set_timestamp |->
                                       LittleEndian(Slice(data, 5, 9))]
               [] code = 7 ->
                    IF Len(data) < 8 THEN RecordError("struct.error")
                    ELSE IF Len(data) < 11 THEN RecordError("IndexError")
                    ELSE IF tlp.exc # "none" THEN tlp
                    ELSE IF Len(data) < 15 THEN RecordError("struct.error")
                    ELSE LET raw_value == LittleEndian(Slice(data, 11, 15))
                             raw_value_obj == from_tlp_instance(tlp, raw_value)
                             cal_value == LittleEndian(Slice(data, 15, 19))
                             cal_value_obj == from_tlp_instance(tlp, raw_value)
                         IN  IF raw_value_obj.exc # "none" THEN raw_value_obj
                             ELSE IF Len(data) < 19
                             THEN RecordError("struct.error")
                             ELSE IF cal_value_obj.exc # "none" THEN cal_value_obj
                             ELSE event
                                  @@ [operator_id |-> Slice(data, 5, 8),
                                      tlp |-> tlp,
                                      raw_value |-> raw_value_obj,
                                      calibrated_value |-> cal_value_obj]

\* The records decoded in order: all of them, or the exception of the
\* first one that raised.
FirstError(decoded) ==
    LET failed == {i \in DOMAIN decoded : decoded[i].exc # "none"}
    IN  IF failed = {} THEN [exc |-> "none", records |-> decoded]
        ELSE [exc |-> decoded[CHOOSE i \in failed : \A j \in failed : i <= j].exc,
              records |-> <<>>]

\* The loop of AlarmDataResponseData / EventDataResponseData
\* .data_from_binary: `count` records of `width` bytes, each decoded from
\* its own slice; the first exception leaves the decoder.
Records(record_data, count, width, kind) ==
    FirstError([i \in 1..count |->
                   LET this == Slice(record_data, (i - 1) * width, i * width)
                   IN  IF kind = "alarm" THEN get_alarm_from_binary(this)
                       ELSE get_event_from_binary(this)])

\* The AlarmDataData or EventDataData built from the head of the body and
\* the records `out`, or the exception the records raised.
LogData(response_data, kind, out) ==
    IF out.exc # "none" THEN [exc |-> out.exc, data |-> NoneData]
    ELSE [exc |-> "none",
          data |-> [type |-> IF kind = "alarm" THEN "AlarmDataData"
                             ELSE "EventDataData",
                    number |-> response_data[1],
                    starting_log_index |->
                        Signed16(LittleEndian(Slice(response_data, 1, 3))),
                    current_log_index |->
                        Signed16(LittleEndian(Slice(response_data, 3, 5))),
                    records |-> out.records]]

\* AlarmDataResponseData.data_from_binary (opcode 118) and
\* EventDataResponseData.data_from_binary (opcode 119): count, two '<h'
\* log indexes, then the records.
Log_data_from_binary(raw, kind) ==
    LET response_data == Slice(raw, 6, 6 + At(raw, 5))
    IN  IF response_data = <<>> THEN [exc |-> "IndexError", data |-> NoneData]
        ELSE IF Len(response_data) < 5
        THEN [exc |-> "struct.error", data |-> NoneData]
        ELSE LogData(response_data, kind,
                     Records(Slice(response_data, 5, Len(response_data)),
                             response_data[1],
                             IF kind = "alarm" THEN 23 ELSE 22, kind))

\* The opcodes whose body decoders are modelled here.
DecodedOpcodes == {50, 118, 119, 167, 180, 255}

\* <cls>.data_from_binary, dispatched on the response data class.
data_from_binary(cls, raw) ==
    CASE cls = "OpcodeErrorResponseData" -> OpcodeError_data_from_binary(raw)
      [] cls = "IOLocationResponseData"  -> IOLocation_data_from_binary(raw)
      [] cls = "ParameterResponseData"   -> Parameter_data_from_binary(raw)
      [] cls = "SinglePointParameterResponseData" ->
             SinglePointParameter_data_from_binary(raw)
      [] cls \in {"AlarmDataResponseData", "EventDataResponseData"} ->
             Log_data_from_binary(raw, IF cls = "AlarmDataResponseData"
                                       THEN "alarm" ELSE "event")

\* ResponseData.from_binary: the body is decoded only when data_length > 0.
ResponseData_from_binary(cls, raw) ==
    IF Len(raw) < 6 THEN Raised("IndexError")
    ELSE LET data_length == At(raw, 5)
             decoded == IF data_length > 0
                        THEN data_from_binary(cls, raw)
                        ELSE [exc |-> "none", data |-> NoneData]
         IN  IF decoded.exc # "none" THEN Raised(decoded.exc)
             ELSE [exc |-> "none", cls |-> cls, opcode |-> At(raw, 4),
                   data_length |-> data_length, data |-> decoded.data,
                   device_data |-> response_from_binary(raw)]

\* Response.from_binary: header, opcode byte 4, dispatch, body.
Response_from_binary(raw) ==
    IF Len(raw) < 4 THEN Raised("struct.error")
    ELSE IF Len(raw) < 5 THEN Raised("IndexError")
    ELSE IF At(raw, 4) \notin RegisteredOpcodes THEN Raised("KeyError")
    ELSE ResponseData_from_binary(ResponseDataClass(At(raw, 4)), raw)

----------------------------------------------------------------------------
(* Exceptions: client/exceptions.py *)

\* The direct base class of each exception class of the client.
BaseOf(e) ==
    CASE e = "ROCEmptyDataError"     -> "ROCDataError"
      [] e = "ROCErrorResponseError" -> "ROCDataError"
      [] e = "ROCDataError"          -> "ROCError"
      [] e = "ROCConfigError"        -> "ROCError"
      [] e = "ROCOperationTimeout"   -> "ROCError"
      [] e = "ROCConnectionError"    -> "ROCError"
      [] e = "ROCConnectionTimeout"  -> "ROCError"
      [] OTHER                       -> "Exception"

RECURSIVE IsInstance(_, _)
\* isinstance(<an exception of class e>, c): what `except c` catches.
IsInstance(e, c) ==
    IF e = c THEN TRUE
    ELSE IF e = "Exception" THEN FALSE
    ELSE IsInstance(BaseOf(e), c)

----------------------------------------------------------------------------
(* The facade's typed wrappers: client/roc_plus.py *)

Returned(data) == [kind |-> "return", exc |-> "none", data |-> data]

Raises(e, data) == [kind |-> "raise", exc |-> e, data |-> data]

\* validate_response as it would be if it took an absent payload for a
\* device error.
validate_response_no_empty(response_data, response_data_type) ==
    IF response_data.data # NoneData /\ response_data.data.type = response_data_type
    THEN Returned(response_data.data)
    ELSE Raises("ROCErrorResponseError", response_data.data)

\* ROCPlusClient.validate_response.
validate_response(response_data, response_data_type) ==
    IF response_data.data # NoneData
    THEN IF response_data.data.type = response_data_type
         THEN Returned(response_data.data)
         ELSE IF response_data.cls = "OpcodeErrorResponseData"
         THEN Raises("ROCErrorResponseError", response_data.data)
         ELSE Raises("ROCDataError", NoneData)
    ELSE Raises("ROCEmptyDataError", NoneData)

\* The checks get_system_config makes in line on the response.
system_config_check(response_data) ==
    IF response_data.data # NoneData
    THEN IF response_data.cls = "SystemConfigResponseData"
         THEN Returned(response_data.data)
         ELSE IF response_data.cls = "OpcodeErrorResponseData"
         THEN Raises("ROCErrorResponseError", response_data.data)
         ELSE Raises("ROCDataError", NoneData)
    ELSE Raises("ROCEmptyDataError", NoneData)

\* The typed wrappers, with the data class each one validates against.
WrapperDataType ==
    [read_tlp                            |-> "ParameterData",
     read_tlps                           |-> "ParameterData",
     read_contiguous_tlps                |-> "SinglePointParameterData",
     stream_tlp                          |-> "ParameterData",
     stream_tlps                         |-> "ParameterData",
     get_system_config                   |-> "SystemConfigData",
     get_clock_time                      |-> "ReadClockData",
     get_io_logical_numbers              |-> "IOLocationData",
     get_io_point_types                  |-> "IOLocationData",
     get_history_today_yesterday_min_max |-> "TodayYestMinMaxData",
     get_alarm_data                      |-> "AlarmDataData",
     get_event_data                      |-> "EventDataData",
     get_single_point_history_data       |-> "SinglePointHistoryData"]

Wrappers == DOMAIN WrapperDataType

\* The opcode of the RequestData each typed wrapper builds and sends.
WrapperOpcode ==
    [read_tlp                            |-> 180,
     read_tlps                           |-> 180,
     read_contiguous_tlps                |-> 167,
     stream_tlp                          |-> 180,
     stream_tlps                         |-> 180,
     get_system_config                   |-> 6,
     get_clock_time                      |-> 7,
     get_io_logical_numbers              |-> 50,
     get_io_point_types                  |-> 50,
     get_history_today_yesterday_min_max |-> 105,
     get_alarm_data                      |-> 118,
     get_event_data                      |-> 119,
     get_single_point_history_data       |-> 135]

\* What a wrapper does with the Response make_opcode_request returned.
WrapperValidate(w, response_data) ==
    IF w = "get_system_config"
    THEN system_config_check(response_data)
    ELSE validate_response(response_data, WrapperDataType[w])

\* make_opcode_request from the bytes read on: decode, and turn a pydantic
\* ValidationError into ROCDataError; any other exception passes through.
RequestOutcome(raw) ==
    LET r == Response_from_binary(raw)
    IN  IF r.exc = "ValidationError" THEN Raised("ROCDataError") ELSE r

----------------------------------------------------------------------------
(* The I/O definition: client/models.py and client/roc_plus.py *)

\* The request data of opcode 50 and of opcode 180, as the wrappers build
\* them.
IOLocationRequest(request_type) ==
    [opcode |-> 50, request_type |-> request_type, tlps |-> <<>>]

ParameterRequest(tlps) ==
    [opcode |-> 180, request_type |-> "none", tlps |-> tlps]


\* An Optional[int] that is None.
NoneInt == -1

\* IODefinition(): no flag set, empty io_map (keyed by physical location).
NewIODefinition ==
    [logical_numbers_uploaded |-> FALSE, point_types_uploaded |-> FALSE,
     point_tag_ids_uploaded |-> FALSE, defined |-> FALSE, io_map |-> <<>>]

\* IOPointDefinition(physical_location=..., logical_number=...).
IOPointDefinition(physical_location, logical_number) ==
    [physical_location |-> physical_location, logical_number |-> logical_number,
     point_type |-> NoneInt, point_tag_id |-> NoneStr]

\* The point type number of the analog inputs, whose tags are read.
AnalogInputs == 103

\* The parameter number of POINT_TAG_ID in a point type of the registry.
POINT_TAG_ID == 0

\* get_named_values as it would be if it returned the values as they came.
get_named_values_skipped(io, tlp_values) ==
    [exc |-> "none", values |-> tlp_values]

\* get_named_values: when the definition is defined, every value takes the
\* point_tag_id of io_map[logical_number]; a missing key is ROCDataError.
get_named_values(io, tlp_values) ==
    IF ~io.defined THEN [exc |-> "none", values |-> tlp_values]
    ELSE IF \E k \in 1..Len(tlp_values) :
                tlp_values[k].logical_number \notin DOMAIN io.io_map
    THEN [exc |-> "ROCDataError", values |-> <<>>]
    ELSE [exc |-> "none",
          values |-> [k \in 1..Len(tlp_values) |->
                        [tlp_values[k] EXCEPT !.tag_name =
                            io.io_map[tlp_values[k].logical_number].point_tag_id]]]

\* The wrappers that return TLP values, and those that return the first.
ValueWrappers == {"read_tlp", "read_tlps", "read_contiguous_tlps",
                  "stream_tlp", "stream_tlps"}

FirstValueWrappers == {"read_tlp", "stream_tlp"}

\* A typed wrapper from the Response on: validate, then name the values
\* (and take the first one) where the wrapper returns TLP values.
WrapperResult(w, response_data, io) ==
    LET v == WrapperValidate(w, response_data)
    IN  IF v.kind = "raise" \/ w \notin ValueWrappers THEN v
        ELSE LET named == get_named_values(io, v.data.values)
             IN  IF named.exc # "none" THEN Raises(named.exc, NoneData)
                 ELSE IF w \in FirstValueWrappers
                 THEN IF named.values = <<>>
                      THEN Raises("IndexError", NoneData)
                      ELSE Returned([type |-> "TLPValue",
                                     values |-> <<named.values[1]>>])
                 ELSE Returned([type |-> "TLPValues", values |-> named.values])

\* The flag a wrapper sets on the I/O definition once its response is valid.
WrapperFlags(w, validated, io) ==
    IF validated.kind = "raise" THEN io
    ELSE IF w = "get_io_logical_numbers"
    THEN [io EXCEPT !.logical_numbers_uploaded = TRUE]
    ELSE IF w = "get_io_point_types"
    THEN [io EXCEPT !.point_types_uploaded = TRUE]
    ELSE io

\* get_physical_io_definition, first loop: one IOPointDefinition per
\* location of the response, replacing the entry the map held there.
WithLogicalNumbers(io_map, location_data) ==
    [loc \in DOMAIN io_map \cup DOMAIN location_data |->
        IF loc \in DOMAIN location_data
        THEN IOPointDefinition(loc, location_data[loc])
        ELSE io_map[loc]]

\* The first location of the response, in order, that the map does not hold.
FirstMissing(io_map, locations) ==
    IF locations \subseteq DOMAIN io_map THEN NoneInt
    ELSE CHOOSE loc \in locations \ DOMAIN io_map :
             \A other \in locations \ DOMAIN io_map : loc <= other

\* get_physical_io_definition, second loop: io_map[location].point_type is
\* set in the order of the response, up to the first location not held.
WithPointTypes(io_map, location_data) ==
    LET stop == FirstMissing(io_map, DOMAIN location_data)
    IN  [loc \in DOMAIN io_map |->
            IF loc \in DOMAIN location_data /\ (stop = NoneInt \/ loc < stop)
            THEN [io_map[loc] EXCEPT !.point_type = location_data[loc]]
            ELSE io_map[loc]]

RECURSIVE TagTLPs(_, _)
\* get_io_point_tag_ids: the POINT_TAG_ID TLP of every point of the map
\* whose point type is the analog inputs', from location loc on.
TagTLPs(io_map, loc) ==
    IF loc \notin DOMAIN io_map THEN <<>>
    ELSE (IF io_map[loc].point_type = AnalogInputs
          THEN <<[point_type |-> AnalogInputs, logical_number |-> loc,
                  parameter |-> POINT_TAG_ID]>>
          ELSE <<>>) \o TagTLPs(io_map, loc + 1)

RECURSIVE WithTags(_, _, _)
\* get_io_point_tag_ids, the loop over the values read: the value becomes
\* the point_tag_id of io_map[value.logical_number]; a missing key ends it.
WithTags(io_map, values, k) ==
    IF k > Len(values) THEN [exc |-> "none", io_map |-> io_map]
    ELSE IF values[k].logical_number \notin DOMAIN io_map
    THEN [exc |-> "KeyError", io_map |-> io_map]
    ELSE WithTags([io_map EXCEPT ![values[k].logical_number].point_tag_id =
                                     values[k].value],
                  values, k + 1)

----------------------------------------------------------------------------
(* The client shared by asyncio tasks: client/async_tcp_generic.py and     *)
(* client/roc_plus.py.  Tasks run one at a time and switch only at an      *)
(* await that suspends: asyncio.open_connection, drain, read, wait_closed  *)
(* and the body of the connect() context manager.                          *)

\* A connection asyncio.open_connection has just established.
\*   state     "open", or "closed" once the client called writer.close()
\*   tx        the request frames handed to the transport, by calling task
\*   answered  how many of them the device has replied to
\*   rx        the replies received and not yet read: [req, bytes]
\*   eof       the device closed its end
NewSock == [state |-> "open", tx |-> <<>>, answered |-> 0, rx |-> <<>>,
            eof |-> FALSE]

\* The replies a device sends in Spec: an opcode 50 reply, a device error
\* (opcode 255) and a frame of an opcode without decoder (10).
DeviceFrames ==
    {ResponseFrame(50, <<3, 0>>), ResponseFrame(255, <<4, 5>>),
     ResponseFrame(10, <<1>>)}

RECURSIVE Concat(_)
\* The bytes of all buffered replies: what one reader.read(n=1024) returns.
Concat(rx) == IF rx = <<>> THEN <<>> ELSE Head(rx).bytes \o Concat(Tail(rx))

Suspended == {"w_connecting", "w_draining", "r_connecting", "r_reading",
              "o_connecting", "c_closing", "x_connecting", "x_block",
              "x_closing"}

Connecting == {"w_connecting", "r_connecting", "o_connecting", "x_connecting"}

\* The calls whose request frame is written and whose response is not yet
\* read and decoded.
InFlight == {t \in Tasks : pc[t] \in {"w_draining", "r_connecting", "r_reading"}}

InitClient ==
    /\ stream_reader = 0
    /\ stream_writer = 0
    /\ active_request = FALSE
    /\ is_async_context_manager = FALSE
    /\ socks = <<>>
    /\ pc = [t \in Tasks |-> "idle"]
    /\ op = [t \in Tasks |-> "none"]
    /\ tsock = [t \in Tasks |-> 0]
    /\ wsock = [t \in Tasks |-> 0]
    /\ result = [t \in Tasks |-> "none"]
    /\ resp = [t \in Tasks |-> Raised("none")]
    /\ cancelling = [t \in Tasks |-> FALSE]

InitFacadeIdle ==
    /\ f_wrapper = "none"
    /\ f_raw = <<>>
    /\ f_stage = "idle"
    /\ f_response = Raised("none")
    /\ f_surfaced = Raises("none", NoneData)

InitIOIdle ==
    /\ io_definition = NewIODefinition
    /\ i_pc = "idle"
    /\ i_sent = <<>>
    /\ i_result = "none"
    /\ i_method = "none"

\* A dict with no key.
EmptyMap == [k \in {} |-> NoneInt]

\* HistoryDefinition(): not defined, no segment configuration.
NewHistoryDefinition ==
    [defined |-> FALSE, history_configuration_map |-> EmptyMap]

\* A HistorySegmentConfiguration before any of its points is read.
NoSegmentConfig ==
    [segment_number |-> NoneInt, segment_size |-> 0,
     point_configurations |-> <<>>]

InitHistoryIdle ==
    /\ history_definition = NewHistoryDefinition
    /\ h_op = "none"
    /\ h_pc = "idle"
    /\ h_i = 0
    /\ h_point = 0
    /\ h_segment_config = NoSegmentConfig
    /\ segment_definitions = EmptyMap
    /\ h_sent = <<>>
    /\ h_result = "none"

\* No CRC and no Request has been built.
NoCrc == [value |-> -1, lsb |-> -1, msb |-> -1]

InitCrcIdle ==
    /\ c_data = <<>>
    /\ c_crc = NoCrc
    /\ c_request = IOLocationRequest("LOGICAL_NUMBER")
    /\ c_packet = <<>>

\* Tasks are numbered in the order in which they make their call.
MayStart(t) ==
    /\ pc[t] = "idle"
    /\ \A u \in Tasks : u < t => pc[u] # "idle"

\* open_connection as it would be if it connected whatever streams it holds.
NeedsConnectAlways == TRUE

\* TCPClient.open_connection, the test that decides whether to connect.
NeedsConnect == stream_reader = 0 \/ stream_writer = 0

\* make_opcode_request as it would be without its `finally`: the flag stays.
ActiveAfterRequestKept == TRUE

\* make_opcode_request, the value its `finally` leaves in _active_request.
ActiveAfterRequest == FALSE

\* The task's call has ended with outcome r.
Finish(t, r) ==
    /\ pc' = [pc EXCEPT ![t] = "done"]
    /\ result' = [result EXCEPT ![t] = r]

\* The calls that create an async generator polling one request.
StreamOps == {"stream_tlp", "stream_tlps"}

\* stream_tlp / stream_tlps as they would be without their
\* `except asyncio.CancelledError` clause: the consumer gets the error.
StreamCancelOutcomeRaised == "CancelledError"

\* stream_tlp / stream_tlps, `except asyncio.CancelledError: pass`: the
\* generator returns and the consumer's iteration stops.
StreamCancelOutcome == "StopAsyncIteration"

\* The loop of stream_tlp as it would be if it skipped a failed poll: the
\* error is dropped and the generator sleeps until the next poll.
StreamResumeRetrying(t, r) ==
    IF r = "CancelledError" THEN Finish(t, StreamCancelOutcome)
    ELSE IF r # "ok"
    THEN /\ pc' = [pc EXCEPT ![t] = "s_sleeping"]
         /\ UNCHANGED result
    ELSE LET v == WrapperResult(op[t], resp'[t], io_definition)
         IN  IF v.kind = "raise"
             THEN /\ pc' = [pc EXCEPT ![t] = "s_sleeping"]
                  /\ UNCHANGED result
             ELSE /\ pc' = [pc EXCEPT ![t] = "s_yield"]
                  /\ UNCHANGED result

\* The loop of stream_tlp / stream_tlps once make_opcode_request has ended
\* with outcome r: validate_response, get_named_values and `yield`, or the
\* error leaves the generator; CancelledError alone is caught.
StreamResume(t, r) ==
    IF r = "CancelledError" THEN Finish(t, StreamCancelOutcome)
    ELSE IF r # "ok" THEN Finish(t, r)
    ELSE LET v == WrapperResult(op[t], resp'[t], io_definition)
         IN  IF v.kind = "raise"
             THEN Finish(t, v.exc)
             ELSE /\ pc' = [pc EXCEPT ![t] = "s_yield"]
                  /\ UNCHANGED result

\* make_opcode_request has ended with outcome r: its `finally` runs, and
\* the outcome goes to the caller or to the generator that made the call.
FinishRequest(t, r) ==
    /\ active_request' = ActiveAfterRequest
    /\ IF op[t] \in StreamOps THEN StreamResume(t, r) ELSE Finish(t, r)

\* write_to_stream after open_connection: writer.write(data), then the task
\* waits in drain().  A transport already closed drops the bytes.
WriteFrame(t, s, ss) ==
    /\ socks' = IF ss[s].state = "open"
                THEN [ss EXCEPT ![s].tx = Append(@, t)]
                ELSE ss
    /\ wsock' = [wsock EXCEPT ![t] = s]
    /\ tsock' = [tsock EXCEPT ![t] = s]
    /\ pc' = [pc EXCEPT ![t] = "w_draining"]

\* TCPClient.close_connection up to its await: writer.close() and wait in
\* wait_closed(), or nothing to close. `r` is the outcome kept for the exit.
BeginClose(t, closing, r) ==
    IF stream_writer # 0
    THEN /\ socks' = [socks EXCEPT ![stream_writer].state = "closed"]
         /\ tsock' = [tsock EXCEPT ![t] = stream_writer]
         /\ pc' = [pc EXCEPT ![t] = closing]
         /\ result' = [result EXCEPT ![t] = r]
         /\ UNCHANGED <<stream_reader, stream_writer>>
    ELSE /\ stream_reader' = 0
         /\ stream_writer' = 0
         /\ Finish(t, r)
         /\ UNCHANGED <<socks, tsock>>

\* make_opcode_request up to its first await: the busy test, the flag,
\* then write_to_stream.
BeginRequest(t) ==
    IF active_request = TRUE
    THEN /\ FinishRequest(t, "ROCConnectionError")
         /\ UNCHANGED <<socks, wsock, tsock>>
    ELSE /\ active_request' = TRUE
         /\ UNCHANGED result
         /\ IF NeedsConnect
            THEN /\ pc' = [pc EXCEPT ![t] = "w_connecting"]
                 /\ UNCHANGED <<socks, wsock, tsock>>
            ELSE WriteFrame(t, stream_writer, socks)

\* make_opcode_request is called.
StartRequest(t) ==
    /\ MayStart(t)
    /\ op' = [op EXCEPT ![t] = "request"]
    /\ BeginRequest(t)
    /\ UNCHANGED <<stream_reader, stream_writer, is_async_context_manager, resp>>
    /\ UNCHANGED <<cancelling, facadeVars, ioVars, crcVars, histVars>>

\* TCPClient.open_connection is called directly.
StartOpen(t) ==
    /\ MayStart(t)
    /\ op' = [op EXCEPT ![t] = "open"]
    /\ IF NeedsConnect
       THEN /\ pc' = [pc EXCEPT ![t] = "o_connecting"]
            /\ UNCHANGED result
       ELSE Finish(t, "ok")
    /\ UNCHANGED <<stream_reader, stream_writer, active_request,
                   is_async_context_manager, socks, tsock, wsock, resp>>
    /\ UNCHANGED <<cancelling, facadeVars, ioVars, crcVars, histVars>>

\* TCPClient.close_connection is called directly.
StartClose(t) ==
    /\ MayStart(t)
    /\ op' = [op EXCEPT ![t] = "close"]
    /\ BeginClose(t, "c_closing", "ok")
    /\ UNCHANGED <<active_request, is_async_context_manager, wsock, resp>>
    /\ UNCHANGED <<cancelling, facadeVars, ioVars, crcVars, histVars>>

\* `async with client.connect()` is entered (no init_* option requested).
StartConnect(t) ==
    /\ MayStart(t)
    /\ op' = [op EXCEPT ![t] = "connect"]
    /\ is_async_context_manager' = TRUE
    /\ pc' = [pc EXCEPT ![t] = IF NeedsConnect THEN "x_connecting" ELSE "x_block"]
    /\ UNCHANGED <<stream_reader, stream_writer, active_request, socks,
                   tsock, wsock, result, resp>>
    /\ UNCHANGED <<cancelling, facadeVars, ioVars, crcVars, histVars>>

\* asyncio.open_connection returns: the new streams are stored.
ConnectOK(t) ==
    /\ pc[t] \in Connecting
    /\ LET new == Len(socks) + 1
           ss  == Append(socks, NewSock)
       IN  /\ stream_reader' = new
           /\ stream_writer' = new
           /\ CASE pc[t] = "w_connecting" ->
                     /\ WriteFrame(t, new, ss)
                     /\ UNCHANGED result
                [] pc[t] = "r_connecting" ->
                     /\ socks' = ss
                     /\ tsock' = [tsock EXCEPT ![t] = new]
                     /\ pc' = [pc EXCEPT ![t] = "r_reading"]
                     /\ UNCHANGED <<wsock, result>>
                [] pc[t] = "o_connecting" ->
                     /\ socks' = ss
                     /\ tsock' = [tsock EXCEPT ![t] = new]
                     /\ Finish(t, "ok")
                     /\ UNCHANGED wsock
                [] pc[t] = "x_connecting" ->
                     /\ socks' = ss
                     /\ tsock' = [tsock EXCEPT ![t] = new]
                     /\ pc' = [pc EXCEPT ![t] = "x_block"]
                     /\ UNCHANGED <<wsock, result>>
    /\ UNCHANGED <<active_request, is_async_context_manager, op, resp>>
    /\ UNCHANGED <<cancelling, facadeVars, ioVars, crcVars, histVars>>

\* asyncio.open_connection fails or times out: ConnectionError is raised.
ConnectFail(t) ==
    /\ pc[t] \in Connecting
    /\ CASE pc[t] \in {"w_connecting", "r_connecting"} ->
              /\ FinishRequest(t, "ConnectionError/connect")
              /\ UNCHANGED <<stream_reader, stream_writer, socks, tsock,
                             is_async_context_manager>>
         [] pc[t] = "o_connecting" ->
              /\ Finish(t, "ConnectionError/connect")
              /\ UNCHANGED <<stream_reader, stream_writer, socks, tsock,
                             active_request, is_async_context_manager>>
         [] pc[t] = "x_connecting" ->
              /\ is_async_context_manager' = FALSE
              /\ BeginClose(t, "x_closing", "ConnectionError/connect")
              /\ UNCHANGED active_request
    /\ UNCHANGED <<op, wsock, resp>>
    /\ UNCHANGED <<cancelling, facadeVars, ioVars, crcVars, histVars>>

\* drain() returns; read_from_stream starts: open_connection, then read().
DrainOK(t) ==
    /\ pc[t] = "w_draining"
    /\ IF NeedsConnect
       THEN /\ pc' = [pc EXCEPT ![t] = "r_connecting"]
            /\ UNCHANGED tsock
       ELSE /\ pc' = [pc EXCEPT ![t] = "r_reading"]
            /\ tsock' = [tsock EXCEPT ![t] = stream_reader]
    /\ UNCHANGED <<stream_reader, stream_writer, active_request,
                   is_async_context_manager, socks, op, wsock, result, resp>>
    /\ UNCHANGED <<cancelling, facadeVars, ioVars, crcVars, histVars>>

\* drain() times out or raises: ConnectionError is raised.
DrainFail(t) ==
    /\ pc[t] = "w_draining"
    /\ FinishRequest(t, "ConnectionError/write")
    /\ UNCHANGED <<stream_reader, stream_writer, is_async_context_manager,
                   socks, op, tsock, wsock, resp>>
    /\ UNCHANGED <<cancelling, facadeVars, ioVars, crcVars, histVars>>

\* make_opcode_request after read() returned `raw`: decode and return or raise.
Decode(t, raw) ==
    LET out == RequestOutcome(raw)
    IN  /\ resp' = [resp EXCEPT ![t] = out]
        /\ FinishRequest(t, IF out.exc = "none" THEN "ok" ELSE out.exc)

\* read() returns the bytes received so far.
ReadData(t) ==
    /\ pc[t] = "r_reading"
    /\ socks[tsock[t]].rx # <<>>
    /\ socks' = [socks EXCEPT ![tsock[t]].rx = <<>>]
    /\ Decode(t, Concat(socks[tsock[t]].rx))
    /\ UNCHANGED <<stream_reader, stream_writer, is_async_context_manager,
                   op, tsock, wsock>>
    /\ UNCHANGED <<cancelling, facadeVars, ioVars, crcVars, histVars>>

\* read() returns b'' at end of stream.
ReadEOF(t) ==
    /\ pc[t] = "r_reading"
    /\ socks[tsock[t]].rx = <<>>
    /\ socks[tsock[t]].eof \/ socks[tsock[t]].state = "closed"
    /\ Decode(t, <<>>)
    /\ UNCHANGED <<stream_reader, stream_writer, is_async_context_manager,
                   socks, op, tsock, wsock>>
    /\ UNCHANGED <<cancelling, facadeVars, ioVars, crcVars, histVars>>

\* read() times out or raises: ConnectionError is raised.
ReadFail(t) ==
    /\ pc[t] = "r_reading"
    /\ FinishRequest(t, "ConnectionError/read")
    /\ UNCHANGED <<stream_reader, stream_writer, is_async_context_manager,
                   socks, op, tsock, wsock, resp>>
    /\ UNCHANGED <<cancelling, facadeVars, ioVars, crcVars, histVars>>

\* The body of `async with client.connect()` ends, normally or by raising;
\* the `finally` of connect() calls close_connection.
BlockExit(t) ==
    /\ pc[t] = "x_block"
    /\ is_async_context_manager' = FALSE
    /\ \E r \in {"ok", "Exception"} : BeginClose(t, "x_closing", r)
    /\ UNCHANGED <<active_request, op, wsock, resp>>
    /\ UNCHANGED <<cancelling, facadeVars, ioVars, crcVars, histVars>>

\* wait_closed() returns: close_connection forgets both streams.
CloseOK(t) ==
    /\ pc[t] \in {"c_closing", "x_closing"}
    /\ stream_reader' = 0
    /\ stream_writer' = 0
    /\ pc' = [pc EXCEPT ![t] = "done"]
    /\ UNCHANGED <<active_request, is_async_context_manager, socks, op,
                   tsock, wsock, result, resp>>
    /\ UNCHANGED <<cancelling, facadeVars, ioVars, crcVars, histVars>>

\* wait_closed() times out or raises: ConnectionError is raised before the
\* streams are forgotten; connect() lets it through.
CloseFail(t) ==
    /\ pc[t] \in {"c_closing", "x_closing"}
    /\ Finish(t, "ConnectionError/close")
    /\ UNCHANGED <<stream_reader, stream_writer, active_request,
                   is_async_context_manager, socks, op, tsock, wsock, resp>>
    /\ UNCHANGED <<cancelling, facadeVars, ioVars, crcVars, histVars>>

\* The task is cancelled while suspended: CancelledError is raised at its
\* await and the enclosing `finally` blocks run.
Cancel(t) ==
    /\ pc[t] \in Suspended
    /\ CASE op[t] = "request" \/ op[t] \in StreamOps ->
              /\ FinishRequest(t, "CancelledError")
              /\ UNCHANGED <<stream_reader, stream_writer, socks, tsock,
                             is_async_context_manager>>
         [] op[t] \in {"open", "close"} \/ pc[t] = "x_closing" ->
              /\ Finish(t, "CancelledError")
              /\ UNCHANGED <<stream_reader, stream_writer, socks, tsock,
                             active_request, is_async_context_manager>>
         [] op[t] = "connect" /\ pc[t] # "x_closing" ->
              /\ is_async_context_manager' = FALSE
              /\ BeginClose(t, "x_closing", "CancelledError")
              /\ UNCHANGED active_request
    /\ cancelling' = [cancelling EXCEPT ![t] = TRUE]
    /\ UNCHANGED <<op, wsock, resp>>
    /\ UNCHANGED <<facadeVars, ioVars, crcVars, histVars>>

\* The device answers the oldest request it has not answered yet.
DeviceReply(s) ==
    /\ socks[s].state = "open"
    /\ ~socks[s].eof
    /\ socks[s].answered < Len(socks[s].tx)
    /\ \E f \in DeviceFrames :
          socks' = [socks EXCEPT
                      ![s].rx = Append(@, [req |-> socks[s].tx[socks[s].answered + 1],
                                           bytes |-> f]),
                      ![s].answered = @ + 1]
    /\ UNCHANGED <<stream_reader, stream_writer, active_request,
                   is_async_context_manager, pc, op, tsock, wsock, result, resp>>
    /\ UNCHANGED <<cancelling, facadeVars, ioVars, crcVars, histVars>>

\* The device closes its end of the connection.
PeerClose(s) ==
    /\ socks[s].state = "open"
    /\ ~socks[s].eof
    /\ socks' = [socks EXCEPT ![s].eof = TRUE]
    /\ UNCHANGED <<stream_reader, stream_writer, active_request,
                   is_async_context_manager, pc, op, tsock, wsock, result, resp>>
    /\ UNCHANGED <<cancelling, facadeVars, ioVars, crcVars, histVars>>

\* What every step of every task does once its call is made, and the device.
Progress ==
    \/ \E t \in Tasks : ConnectOK(t)
    \/ \E t \in Tasks : ConnectFail(t)
    \/ \E t \in Tasks : DrainOK(t)
    \/ \E t \in Tasks : DrainFail(t)
    \/ \E t \in Tasks : ReadData(t)
    \/ \E t \in Tasks : ReadEOF(t)
    \/ \E t \in Tasks : ReadFail(t)
    \/ \E t \in Tasks : Cancel(t)
    \/ \E s \in 1..Len(socks) : DeviceReply(s)
    \/ \E s \in 1..Len(socks) : PeerClose(s)

Init ==
    InitClient /\ InitFacadeIdle /\ InitIOIdle /\ InitCrcIdle /\ InitHistoryIdle

\* Spec: NCallers tasks, each making any one call on the client.
Next ==
    \/ \E t \in Callers : StartRequest(t)
    \/ \E t \in Callers : StartOpen(t)
    \/ \E t \in Callers : StartClose(t)
    \/ \E t \in Callers : StartConnect(t)
    \/ \E t \in Tasks : BlockExit(t)
    \/ \E t \in Tasks : CloseOK(t)
    \/ \E t \in Tasks : CloseFail(t)
    \/ Progress

Spec == Init /\ [][Next]_vars

\* SpecRequests: NTasks tasks, each calling make_opcode_request; the
\* connection is opened by write_to_stream and never closed by a caller.
NextRequests ==
    \/ \E t \in Tasks : StartRequest(t)
    \/ Progress

SpecRequests == Init /\ [][NextRequests]_vars

\* SpecLifecycle: NTasks tasks, each calling open_connection,
\* close_connection or connect(); no request is made.
NextLifecycle ==
    \/ \E t \in Tasks : StartOpen(t)
    \/ \E t \in Tasks : StartClose(t)
    \/ \E t \in Tasks : StartConnect(t)
    \/ \E t \in Tasks : ConnectOK(t)
    \/ \E t \in Tasks : ConnectFail(t)
    \/ \E t \in Tasks : BlockExit(t)
    \/ \E t \in Tasks : CloseOK(t)
    \/ \E t \in Tasks : CloseFail(t)
    \/ \E t \in Tasks : Cancel(t)

SpecLifecycle == Init /\ [][NextLifecycle]_vars

----------------------------------------------------------------------------
(* SpecFacade: one typed wrapper called on the bytes of one read. *)

\* The byte values response bodies are drawn from: 4 and 5 are error codes
\* of OpcodeErrorCodes, 9 is not.
BodyBytes == {4, 5, 9}

RECURSIVE BodiesOfLen(_)
BodiesOfLen(n) ==
    IF n = 0 THEN {<<>>}
    ELSE {Append(b, x) : b \in BodiesOfLen(n - 1), x \in BodyBytes}

Bodies == UNION {BodiesOfLen(n) : n \in 0..MaxBody}

\* The values the opcode byte of a frame can take.
OpcodeBytes == 0..255

\* Frames with a body, for the opcodes whose body decoder is modelled and
\* for opcode 10; frames of length 0 for every value of the opcode byte.
FacadeFrames ==
    {ResponseFrame(o, b) : o \in DecodedOpcodes \cup {10}, b \in Bodies}
    \cup {ResponseFrame(o, <<>>) : o \in OpcodeBytes}

\* A frame whose crc bytes were damaged on the way: lsb or msb off by one.
Damaged(frame) ==
    LET n == Len(frame)
    IN  {[frame EXCEPT ![n - 1] = (@ + 1) % 256],
         [frame EXCEPT ![n] = (@ + 1) % 256]}

\* A frame one of whose body bytes was changed on the way.
Garbled(frame) ==
    {[frame EXCEPT ![i] = b] : i \in 7..(Len(frame) - 2), b \in BodyBytes}
    \ {frame}

\* The whole frames that are cut short or damaged in SpecFacade.
SampleFrames == {ResponseFrame(255, <<4, 5>>), ResponseFrame(50, <<4, 5>>)}

\* One item of an opcode 180 response: point type, point number, parameter
\* number, then the bytes of the value.
ValueItem(point_type, point_number, parameter_number, bytes) ==
    <<point_type, point_number, parameter_number>> \o bytes

\* The tag "AI1" as the device holds it: ten characters, blank padded.
TagBytes == <<65, 73, 49, 32, 32, 32, 32, 32, 32, 32>>

\* Opcode 180 responses all of whose items are in the registry.
KnownValueFrames ==
    {ResponseFrame(180, <<1>> \o ValueItem(103, 2, 3, <<7>>)),
     ResponseFrame(180, <<2>> \o ValueItem(103, 2, 21, <<1, 2>>)
                             \o ValueItem(101, 0, 3, <<9>>)),
     ResponseFrame(180, <<1>> \o ValueItem(103, 0, 0, TagBytes))}

\* Opcode 180 responses with an item whose point type (77) the registry
\* does not hold, last or first in the list.
UnknownTypeFrames ==
    {ResponseFrame(180, <<2>> \o ValueItem(103, 2, 3, <<7>>)
                             \o ValueItem(77, 0, 1, <<9>>)),
     ResponseFrame(180, <<2>> \o ValueItem(77, 0, 1, <<>>)
                             \o ValueItem(103, 2, 3, <<7>>))}

\* An opcode 180 response with a parameter (99) that point type 103 lacks.
UnknownParameterFrames ==
    {ResponseFrame(180, <<1>> \o ValueItem(103, 1, 99, <<1>>))}

\* The parameter bytes a device sends for point type 103: a tag and five
\* distinct bytes, or the five bytes alone.
ParameterBytes == {<<7, 1, 2, 9, 8>>, TagBytes \o <<7, 1, 2, 9, 8>>}

\* Opcode 167 responses for point type 103, logical number 2: 0 to 3
\* parameters from parameter 0, 1, 2 or 3, with any first bytes of the
\* parameter bytes.
SinglePointFrames ==
    UNION {{ResponseFrame(167, <<103, 2, n, st>> \o Slice(d, 0, k)) :
                n \in 0..3, st \in 0..3, k \in 0..Len(d)} :
           d \in ParameterBytes}

\* One 23-byte alarm record: the type byte, a TIME, then alarm code or FST
\* number 2, TLP (103, 1, 21), the text "HI_ALRM   " and the float 10.0.
AlarmRecord(type_byte) ==
    <<type_byte, 1, 0, 0, 0, 2, 103, 1, 21>>
    \o <<72, 73, 95, 65, 76, 82, 77, 32, 32, 32>> \o <<0, 0, 32, 65>>

\* One 22-byte event record of the kind: a TIME, then a payload laid out
\* for that kind; kinds 1 and 7 carry operator "OP1" and TLP (103, 1, 21),
\* kind 7 the floats 10.0 and 20.0.
EventRecord(kind) ==
    <<kind, 1, 0, 0, 0>>
    \o CASE kind = 1 -> <<79, 80, 49, 103, 1, 21, 5, 1, 2, 0, 0, 3, 4, 0, 0, 0, 0>>
         [] kind = 2 -> <<200, 66, 79, 79, 84, 32, 32, 32, 32, 32, 32, 32, 32, 32,
                          32, 32, 32>>
         [] kind = 4 -> <<79, 80, 49, 200, 83, 69, 84, 32, 32, 32, 32, 32, 32, 32,
                          32, 32, 32>>
         [] OTHER    -> <<79, 80, 49, 103, 1, 21, 0, 0, 32, 65, 0, 0, 160, 65,
                          0, 0, 0>>

\* Opcode 118 and 119 responses: one record of every kind code 0..9 (for
\* alarms also with the flag bits set), whole, cut short, or followed by
\* a second record the count does not announce; and two records (the
\* first of three of the kinds).
LogFrames ==
    LET alarms == {AlarmRecord(b) : b \in 0..9 \cup {65, 129, 196, 63}}
        events == {EventRecord(k) : k \in 0..9}
        head(n) == <<n, 3, 0, 4, 0>>
    IN  {ResponseFrame(118, head(1) \o Slice(r, 0, k)) :
            r \in alarms, k \in {0, 1, 5, 22, 23}}
        \cup {ResponseFrame(118, head(n) \o AlarmRecord(a) \o AlarmRecord(b)) :
                a \in {0, 3, 129}, n \in {1, 2}, b \in {1, 9}}
        \cup {ResponseFrame(119, head(1) \o Slice(r, 0, k)) :
                r \in events, k \in {0, 1, 5, 21, 22}}
        \cup {ResponseFrame(119, head(n) \o EventRecord(j) \o EventRecord(k)) :
                j \in {0, 2, 5}, n \in {1, 2}, k \in {3, 9}}

\* What a read returns: a whole frame, the first bytes of one, or a frame
\* whose bytes do not match its crc.
FacadeReads ==
    FacadeFrames \cup SinglePointFrames \cup LogFrames
    \cup KnownValueFrames \cup UnknownTypeFrames \cup UnknownParameterFrames
    \cup {Slice(f, 0, n) : f \in SampleFrames, n \in 0..9}
    \cup UNION {Damaged(f) \cup Garbled(f) : f \in SampleFrames}

InitFacade ==
    /\ InitClient
    /\ InitIOIdle
    /\ InitHistoryIdle
    /\ InitCrcIdle
    /\ f_wrapper \in Wrappers
    /\ f_raw \in FacadeReads
    /\ f_stage = "call"
    /\ f_response = Raised("none")
    /\ f_surfaced = Raises("none", NoneData)

\* The wrapper awaits make_opcode_request; an exception leaves the wrapper.
FacadeExchange ==
    /\ f_stage = "call"
    /\ f_response' = RequestOutcome(f_raw)
    /\ IF f_response'.exc = "none"
       THEN /\ f_stage' = "exchanged"
            /\ UNCHANGED f_surfaced
       ELSE /\ f_stage' = "done"
            /\ f_surfaced' = Raises(f_response'.exc, NoneData)
    /\ UNCHANGED <<f_wrapper, f_raw>>
    /\ UNCHANGED <<clientVars, ioVars, crcVars, histVars>>

\* The wrapper validates the response, sets its flag, names the values and
\* returns its data or raises.
FacadeValidate ==
    /\ f_stage = "exchanged"
    /\ f_surfaced' = WrapperResult(f_wrapper, f_response, io_definition)
    /\ io_definition' = WrapperFlags(f_wrapper,
                                     WrapperValidate(f_wrapper, f_response),
                                     io_definition)
    /\ f_stage' = "done"
    /\ UNCHANGED <<f_wrapper, f_raw, f_response, i_pc, i_sent, i_result, i_method>>
    /\ UNCHANGED <<clientVars, crcVars, histVars>>

NextFacade == FacadeExchange \/ FacadeValidate

SpecFacade == InitFacade /\ [][NextFacade]_vars

----------------------------------------------------------------------------
(* SpecIO: initialize_io_definition, then one typed wrapper.  Each of its  *)
(* three exchanges ends with a response read or with a transport error.    *)

\* A second tag, "PT" blank padded.
TagBytes2 == <<80, 84, 32, 32, 32, 32, 32, 32, 32, 32>>

\* What the device may answer during initialisation: logical numbers or
\* point types of two or three locations, tags for locations 0, 0 and 1, 5,
\* an empty value list, and a device error.
IOFrames ==
    {ResponseFrame(50, <<0, 1>>),
     ResponseFrame(50, <<0, 1, 2>>),
     ResponseFrame(50, <<AnalogInputs, 101>>),
     ResponseFrame(50, <<AnalogInputs, AnalogInputs, 101>>),
     ResponseFrame(180, <<1>> \o ValueItem(AnalogInputs, 0, POINT_TAG_ID, TagBytes)),
     ResponseFrame(180, <<2>> \o ValueItem(AnalogInputs, 0, POINT_TAG_ID, TagBytes)
                             \o ValueItem(AnalogInputs, 1, POINT_TAG_ID, TagBytes2)),
     ResponseFrame(180, <<1>> \o ValueItem(AnalogInputs, 5, POINT_TAG_ID, TagBytes)),
     ResponseFrame(180, <<0>>),
     ResponseFrame(255, <<4, 5>>)}

\* How an exchange of make_opcode_request can end in SpecIO.
IOOutcomes ==
    {RequestOutcome(f) : f \in IOFrames} \cup {Raised("ConnectionError")}

\* get_io_point_tag_ids as it would be without its test of the flag.
TagIdsMayStartAlways(io) == TRUE

\* get_io_point_tag_ids goes on to its read only when the point types
\* were uploaded; it raises ROCError otherwise.
TagIdsMayStart(io) == io.point_types_uploaded

\* initialize_io_definition has raised e.
IOFail(e) ==
    /\ i_pc' = "failed"
    /\ i_result' = e

\* What a wrapper called by the initialisation gives for the outcome of
\* its exchange.
IOWrapper(w, out) ==
    IF out.exc # "none" THEN Raises(out.exc, NoneData)
    ELSE WrapperResult(w, out, io_definition)

\* initialize_io_definition is called: get_physical_io_definition sends the
\* opcode 50 request for the logical numbers.
IOStart ==
    /\ i_pc = "idle"
    /\ i_sent' = Append(i_sent, IOLocationRequest("LOGICAL_NUMBER"))
    /\ i_pc' = "logical_numbers"
    /\ i_method' = "initialize_io_definition"
    /\ UNCHANGED <<io_definition, i_result>>
    /\ UNCHANGED <<clientVars, facadeVars, crcVars, histVars>>

\* The I/O definition once get_io_logical_numbers has returned and the
\* first loop of get_physical_io_definition has run.
AfterLogicalNumbers(io, location_data) ==
    [io EXCEPT !.logical_numbers_uploaded = TRUE,
               !.io_map = WithLogicalNumbers(@, location_data)]

\* get_physical_io_definition as it would be if it declared the definition
\* defined once the point types are stored.
AfterPointTypesDefined(io, location_data) ==
    [io EXCEPT !.point_types_uploaded = TRUE,
               !.io_map = WithPointTypes(@, location_data),
               !.defined = TRUE]

\* The I/O definition once get_io_point_types has returned and the second
\* loop of get_physical_io_definition has run.
AfterPointTypes(io, location_data) ==
    [io EXCEPT !.point_types_uploaded = TRUE,
               !.io_map = WithPointTypes(@, location_data)]

\* The response to the request for the logical numbers is in (or the
\* exchange failed); on success the request for the point types is sent.
IOLogicalNumbers ==
    /\ i_pc = "logical_numbers"
    /\ \E out \in IOOutcomes :
          LET v == IOWrapper("get_io_logical_numbers", out)
          IN  IF v.kind = "raise"
              THEN /\ IOFail(v.exc)
                   /\ UNCHANGED <<io_definition, i_sent>>
              ELSE IF i_method = "get_io_logical_numbers"
              THEN /\ io_definition' =
                          WrapperFlags("get_io_logical_numbers", v, io_definition)
                   /\ i_pc' = "done"
                   /\ UNCHANGED <<i_sent, i_result>>
              ELSE /\ io_definition' =
                          AfterLogicalNumbers(io_definition, v.data.location_data)
                   /\ i_sent' = Append(i_sent, IOLocationRequest("IO_POINT_TYPE"))
                   /\ i_pc' = "point_types"
                   /\ UNCHANGED i_result
    /\ UNCHANGED i_method
    /\ UNCHANGED <<clientVars, facadeVars, crcVars, histVars>>

\* The response to the request for the point types is in; on success
\* get_io_point_tag_ids sends the opcode 180 read of POINT_TAG_ID for the
\* analog input points.
IOPointTypes ==
    /\ i_pc = "point_types"
    /\ \E out \in IOOutcomes :
          LET v == IOWrapper("get_io_point_types", out)
          IN  IF v.kind = "raise"
              THEN /\ IOFail(v.exc)
                   /\ UNCHANGED <<io_definition, i_sent>>
              ELSE IF i_method = "get_io_point_types"
              THEN /\ io_definition' =
                          WrapperFlags("get_io_point_types", v, io_definition)
                   /\ i_pc' = "done"
                   /\ UNCHANGED <<i_sent, i_result>>
              ELSE LET io == AfterPointTypes(io_definition, v.data.location_data)
                       missing == FirstMissing(io_definition.io_map,
                                               DOMAIN v.data.location_data)
                   IN  /\ io_definition' = io
                       /\ IF missing # NoneInt
                          THEN IOFail("KeyError") /\ UNCHANGED i_sent
                          ELSE IF i_method = "get_physical_io_definition"
                          THEN /\ i_pc' = "done"
                               /\ UNCHANGED <<i_sent, i_result>>
                          ELSE IF ~TagIdsMayStart(io)
                          THEN IOFail("ROCError") /\ UNCHANGED i_sent
                          ELSE /\ i_sent' = Append(i_sent,
                                      ParameterRequest(TagTLPs(io.io_map, 0)))
                               /\ i_pc' = "point_tag_ids"
                               /\ UNCHANGED i_result
    /\ UNCHANGED i_method
    /\ UNCHANGED <<clientVars, facadeVars, crcVars, histVars>>

\* The response to the read of the tags is in; on success the tags are
\* stored and initialize_io_definition declares the definition defined.
IOPointTagIds ==
    /\ i_pc = "point_tag_ids"
    /\ \E out \in IOOutcomes :
          LET v == IOWrapper("read_tlps", out)
          IN  IF v.kind = "raise"
              THEN /\ IOFail(v.exc)
                   /\ UNCHANGED io_definition
              ELSE LET tagged == WithTags(io_definition.io_map, v.data.values, 1)
                   IN  IF tagged.exc # "none"
                       THEN /\ IOFail(tagged.exc)
                            /\ io_definition' =
                                   [io_definition EXCEPT !.io_map = tagged.io_map]
                       ELSE /\ io_definition' =
                                   [io_definition EXCEPT
                                       !.io_map = tagged.io_map,
                                       !.point_tag_ids_uploaded = TRUE,
                                       !.defined =
                                           \/ @
                                           \/ i_method = "initialize_io_definition"]
                            /\ i_pc' = "done"
                            /\ UNCHANGED i_result
    /\ UNCHANGED <<i_sent, i_method>>
    /\ UNCHANGED <<clientVars, facadeVars, crcVars, histVars>>

\* The responses read by the wrapper called after the initialisation.
IOReadFrames ==
    KnownValueFrames \cup {ResponseFrame(180, <<0>>), ResponseFrame(255, <<4, 5>>)}

\* A typed wrapper is called once the initialisation has ended.
FacadeCall ==
    /\ i_pc \in {"done", "failed"}
    /\ f_stage = "idle"
    /\ f_wrapper' \in Wrappers
    /\ f_raw' \in IOReadFrames
    /\ f_stage' = "call"
    /\ UNCHANGED <<f_response, f_surfaced>>
    /\ UNCHANGED <<clientVars, ioVars, crcVars, histVars>>

NextIO ==
    \/ IOStart
    \/ IOLogicalNumbers
    \/ IOPointTypes
    \/ IOPointTagIds
    \/ FacadeCall
    \/ FacadeExchange
    \/ FacadeValidate

SpecIO == Init /\ [][NextIO]_vars

----------------------------------------------------------------------------
(* SpecCrc: a CRC made for some bytes, and a Request turned into bytes. *)

\* Longest input drawn for the CRC besides the check string.
MaxCrcLen == 3

\* The ASCII bytes of "123456789".
CheckString == <<49, 50, 51, 52, 53, 54, 55, 56, 57>>

\* The byte values CRC inputs are drawn from.
CrcBytes == {0, 1, 55, 128, 255}

RECURSIVE CrcInputsOfLen(_)
CrcInputsOfLen(n) ==
    IF n = 0 THEN {<<>>}
    ELSE {Append(b, x) : b \in CrcInputsOfLen(n - 1), x \in CrcBytes}

CrcInputs == {CheckString} \cup UNION {CrcInputsOfLen(n) : n \in 0..MaxCrcLen}

\* IOLocationRequestType: the value of each member.
IOLocationRequestType == [IO_POINT_TYPE |-> 0, LOGICAL_NUMBER |-> 1]

RECURSIVE TLPsBinary(_)
\* ParameterRequestData.data_binary, the loop: three bytes per TLP.
TLPsBinary(tlps) ==
    IF tlps = <<>> THEN <<>>
    ELSE <<Head(tlps).point_type, Head(tlps).logical_number,
           Head(tlps).parameter>> \o TLPsBinary(Tail(tlps))

\* <RequestData>.data_binary for opcode 50 and opcode 180.
data_binary(request_data) ==
    IF request_data.opcode = 50
    THEN <<IOLocationRequestType[request_data.request_type]>>
    ELSE <<Len(request_data.tlps)>> \o TLPsBinary(request_data.tlps)

\* RequestData.to_binary: opcode, data length, data.
RequestData_to_binary(request_data) ==
    <<request_data.opcode, Len(data_binary(request_data))>>
    \o data_binary(request_data)

\* DeviceData.to_binary_request: roc address and group, then the host's.
to_binary_request(device_data) ==
    <<device_data.roc_address, device_data.roc_group,
      device_data.host_address, device_data.host_group>>

\* Request._packet_without_crc.
packet_without_crc(device_data, request_data) ==
    to_binary_request(device_data) \o RequestData_to_binary(request_data)

\* Request.to_binary as it would be with the msb of the crc first.
Request_to_binary_msb_first(device_data, request_data) ==
    LET packet == packet_without_crc(device_data, request_data)
    IN  packet \o <<crc_msb(packet), crc_lsb(packet)>>

\* Request.to_binary: the packet, then crc lsb, then crc msb.
Request_to_binary(device_data, request_data) ==
    LET packet == packet_without_crc(device_data, request_data)
    IN  packet \o <<crc_lsb(packet), crc_msb(packet)>>

\* The request data a Request is built from in SpecCrc.
CrcRequests ==
    {IOLocationRequest("LOGICAL_NUMBER"), IOLocationRequest("IO_POINT_TYPE"),
     ParameterRequest(<<>>),
     ParameterRequest(<<[point_type |-> AnalogInputs, logical_number |-> 1,
                         parameter |-> 21]>>)}

InitCrc ==
    /\ InitClient
    /\ InitFacadeIdle
    /\ InitIOIdle
    /\ InitHistoryIdle
    /\ c_data \in CrcInputs
    /\ c_crc = NoCrc
    /\ c_request \in CrcRequests
    /\ c_packet = <<>>

\* CRC(data=c_data): crc_value, lsb and msb are read.
CrcRead ==
    /\ c_crc = NoCrc
    /\ c_crc' = [value |-> crc_value(c_data), lsb |-> crc_lsb(c_data),
                 msb |-> crc_msb(c_data)]
    /\ UNCHANGED <<c_data, c_request, c_packet>>
    /\ UNCHANGED <<clientVars, facadeVars, ioVars, histVars>>

\* Request(device_data, request_data).to_binary().
RequestToBinary ==
    /\ c_packet = <<>>
    /\ c_packet' = Request_to_binary(DeviceAddress, c_request)
    /\ UNCHANGED <<c_data, c_crc, c_request>>
    /\ UNCHANGED <<clientVars, facadeVars, ioVars, histVars>>

NextCrc == CrcRead \/ RequestToBinary

SpecCrc == InitCrc /\ [][NextCrc]_vars

\* ---------------------------------------------------------------------
\* SpecStream: one task consuming a stream_tlp or stream_tlps generator
\* and one task calling make_opcode_request, started in either order.
\* ---------------------------------------------------------------------

\* The most request frames one stream writes before its consumer stops
\* asking for values.
MaxPolls == 2

\* The request frames task t has written to the transports ss.
WritesIn(ss, t) ==
    Cardinality({p \in UNION {{<<s, i>> : i \in 1..Len(ss[s].tx)} :
                                s \in 1..Len(ss)} :
                    ss[p[1]].tx[p[2]] = t})

\* What the device answers to a parameter request: one value, two values,
\* an empty list of values, or an error.
StreamFrames ==
    {ResponseFrame(180, <<1>> \o ValueItem(103, 2, 3, <<7>>)),
     ResponseFrame(180, <<2>> \o ValueItem(103, 2, 21, <<1, 2>>)
                             \o ValueItem(101, 0, 3, <<9>>)),
     ResponseFrame(180, <<0>>), ResponseFrame(255, <<4, 5>>)}

\* stream_tlp(...) / stream_tlps(...) is called: the generator is created,
\* none of its code runs yet.
StartStream(t) ==
    /\ MayStart(t)
    /\ \E w \in StreamOps : op' = [op EXCEPT ![t] = w]
    /\ pc' = [pc EXCEPT ![t] = "s_ready"]
    /\ UNCHANGED <<stream_reader, stream_writer, active_request,
                   is_async_context_manager, socks, tsock, wsock, result, resp>>
    /\ UNCHANGED <<cancelling, facadeVars, ioVars, crcVars, histVars>>

\* The consumer asks for the first value: the generator runs to the first
\* await of make_opcode_request.
StreamFirst(t) ==
    /\ op[t] \in StreamOps
    /\ pc[t] = "s_ready"
    /\ BeginRequest(t)
    /\ UNCHANGED <<stream_reader, stream_writer, is_async_context_manager,
                   op, resp>>
    /\ UNCHANGED <<cancelling, facadeVars, ioVars, crcVars, histVars>>

\* The consumer asks for the next value: the generator resumes after its
\* `yield` and waits in asyncio.sleep(poll_rate_ms / 1000).
StreamNext(t) ==
    /\ op[t] \in StreamOps
    /\ pc[t] = "s_yield"
    /\ pc' = [pc EXCEPT ![t] = "s_sleeping"]
    /\ UNCHANGED <<stream_reader, stream_writer, active_request,
                   is_async_context_manager, socks, op, tsock, wsock,
                   result, resp>>
    /\ UNCHANGED <<cancelling, facadeVars, ioVars, crcVars, histVars>>

\* The sleep ends: `while True` makes the next request.
SleepDone(t) ==
    /\ op[t] \in StreamOps
    /\ pc[t] = "s_sleeping"
    /\ WritesIn(socks, t) < MaxPolls
    /\ BeginRequest(t)
    /\ UNCHANGED <<stream_reader, stream_writer, is_async_context_manager,
                   op, resp>>
    /\ UNCHANGED <<cancelling, facadeVars, ioVars, crcVars, histVars>>

\* The consuming task is cancelled during the sleep: CancelledError is
\* raised at `await asyncio.sleep` and caught by the generator.
CancelSleep(t) ==
    /\ op[t] \in StreamOps
    /\ pc[t] = "s_sleeping"
    /\ Finish(t, StreamCancelOutcome)
    /\ cancelling' = [cancelling EXCEPT ![t] = TRUE]
    /\ UNCHANGED <<stream_reader, stream_writer, active_request,
                   is_async_context_manager, socks, op, tsock, wsock, resp>>
    /\ UNCHANGED <<facadeVars, ioVars, crcVars, histVars>>

\* The consumer stops iterating and closes the generator at its `yield`:
\* GeneratorExit passes the `except`, the `finally` runs.
StreamClose(t) ==
    /\ op[t] \in StreamOps
    /\ pc[t] = "s_yield"
    /\ Finish(t, "GeneratorExit")
    /\ UNCHANGED <<stream_reader, stream_writer, active_request,
                   is_async_context_manager, socks, op, tsock, wsock, resp>>
    /\ UNCHANGED <<cancelling, facadeVars, ioVars, crcVars, histVars>>

\* The device answers the oldest unanswered request with parameter values.
DeviceValues(s) ==
    /\ socks[s].state = "open"
    /\ ~socks[s].eof
    /\ socks[s].answered < Len(socks[s].tx)
    /\ \E f \in StreamFrames :
          socks' = [socks EXCEPT
                      ![s].rx = Append(@, [req |-> socks[s].tx[socks[s].answered + 1],
                                           bytes |-> f]),
                      ![s].answered = @ + 1]
    /\ UNCHANGED <<stream_reader, stream_writer, active_request,
                   is_async_context_manager, pc, op, tsock, wsock, result, resp>>
    /\ UNCHANGED <<cancelling, facadeVars, ioVars, crcVars, histVars>>

NextStream ==
    \/ \E t \in Callers : /\ \A u \in Tasks : op[u] \notin StreamOps
                           /\ StartStream(t)
    \/ \E t \in Callers : /\ \A u \in Tasks : op[u] # "request"
                           /\ StartRequest(t)
    \/ \E t \in Tasks : StreamFirst(t)
    \/ \E t \in Tasks : StreamNext(t)
    \/ \E t \in Tasks : SleepDone(t)
    \/ \E t \in Tasks : CancelSleep(t)
    \/ \E t \in Tasks : StreamClose(t)
    \/ \E t \in Tasks : ConnectOK(t)
    \/ \E t \in Tasks : ConnectFail(t)
    \/ \E t \in Tasks : DrainOK(t)
    \/ \E t \in Tasks : DrainFail(t)
    \/ \E t \in Tasks : ReadData(t)
    \/ \E t \in Tasks : ReadEOF(t)
    \/ \E t \in Tasks : ReadFail(t)
    \/ \E t \in Tasks : Cancel(t)
    \/ \E s \in 1..Len(socks) : DeviceValues(s)
    \/ \E s \in 1..Len(socks) : PeerClose(s)

SpecStream == Init /\ [][NextStream]_vars

----------------------------------------------------------------------------
(* Claims *)

\* C1: at most one make_opcode_request is in flight (request frame written,
\* response not yet read and decoded) at any time on one client.
C1_SingleFlight == Cardinality(InFlight) <= 1

\* C2: a make_opcode_request called while another one is in flight fails
\* with the busy error (ROCConnectionError), writes none of its bytes and
\* leaves the streams to the earlier call.
C2_ConcurrentCallIsBusy ==
    [][\A t \in Tasks :
          (pc[t] = "idle" /\ pc'[t] # "idle" /\ op'[t] = "request"
             /\ InFlight # {})
          => /\ pc'[t] = "done"
             /\ result'[t] = "ROCConnectionError"
             /\ wsock'[t] = 0
             /\ socks' = socks]_vars

\* C3: when the connect() context manager exits, by any path, the TCPClient
\* holds no stream reader and no stream writer.
C3_ConnectExitClosesTransport ==
    [][\A t \in Tasks :
          (op[t] = "connect" /\ pc[t] # "done" /\ pc'[t] = "done")
          => (stream_reader' = 0 /\ stream_writer' = 0)]_vars

\* C4: open_connection on a client that holds its streams returns without
\* error, establishes no socket and keeps the streams held; close_connection
\* on a client that holds no stream returns without error and leaves it so.
C4_OpenCloseIdempotent ==
    [][\A t \in Tasks :
          /\ (pc[t] = "idle" /\ op'[t] = "open"
                /\ stream_reader # 0 /\ stream_writer # 0)
             => /\ pc'[t] = "done"
                /\ result'[t] = "ok"
                /\ socks' = socks
                /\ stream_reader' = stream_reader
                /\ stream_writer' = stream_writer
          /\ (pc[t] = "idle" /\ op'[t] = "close"
                /\ stream_reader = 0 /\ stream_writer = 0)
             => /\ pc'[t] = "done"
                /\ result'[t] = "ok"
                /\ socks' = socks
                /\ stream_reader' = 0
                /\ stream_writer' = 0]_vars

\* C4 witness: one task closed a client that held nothing, one task opened
\* the connection, and a third opened it again; one socket exists.
C4_Witness ==
    \E a, b, c \in Tasks :
        /\ op[a] = "close" /\ result[a] = "ok" /\ pc[a] = "done" /\ tsock[a] = 0
        /\ op[b] = "open" /\ result[b] = "ok" /\ pc[b] = "done" /\ tsock[b] = 1
        /\ op[c] = "open" /\ result[c] = "ok" /\ pc[c] = "done" /\ tsock[c] = 0
        /\ Len(socks) = 1
        /\ stream_writer = 1

\* The exceptions TCPClient raises for a failed connect, write or read.
TransportErrors ==
    {"ConnectionError/connect", "ConnectionError/write", "ConnectionError/read"}

\* C5: when make_opcode_request fails with a transport error the client is
\* left closed: it holds no stream reader and no stream writer.
C5_TransportErrorLeavesClosed ==
    [][\A t \in Tasks :
          (op[t] = "request" /\ pc[t] # "done" /\ pc'[t] = "done"
             /\ result'[t] \in TransportErrors)
          => (stream_reader' = 0 /\ stream_writer' = 0)]_vars

\* C6: cancelling a make_opcode_request suspended at its write or its read
\* raises CancelledError to the caller and closes the transport the request
\* was on, so that no reply to it can be read later.
C6_CancelClosesTransport ==
    [][\A t \in Tasks :
          (op[t] = "request" /\ pc[t] \in {"w_draining", "r_reading"}
             /\ pc'[t] = "done" /\ result'[t] = "CancelledError")
          => /\ stream_reader' = 0
             /\ stream_writer' = 0
             /\ socks'[tsock[t]].state = "closed"]_vars

\* The exceptions Response.from_binary raises on a frame it cannot decode.
DecodeErrors == {"struct.error", "IndexError", "KeyError"}

\* C7: when decoding the bytes read fails with a framing error, the
\* connection is closed before the error reaches the caller.
C7_FramingErrorClosesConnection ==
    [][\A t \in Tasks :
          (pc[t] = "r_reading" /\ socks[tsock[t]].rx # <<>>
             /\ pc'[t] = "done" /\ result'[t] \in DecodeErrors)
          => (stream_reader' = 0 /\ stream_writer' = 0)]_vars

\* A call that returned a response with opcode 255, read on the connection
\* the client still holds.
DeviceErrorOn(t) ==
    /\ pc[t] = "done"
    /\ result[t] = "ok"
    /\ resp[t].opcode = 255
    /\ tsock[t] = stream_writer
    /\ tsock[t] = stream_reader

\* C8: the exchange that returns an opcode 255 response leaves the streams
\* and every socket as they are and clears the in-flight flag; while the
\* client still holds that connection, the next request is written on it
\* and no new socket is established.
C8_DeviceErrorKeepsConnection ==
    [][\A t \in Tasks :
          /\ (pc[t] = "r_reading" /\ pc'[t] = "done"
                /\ resp'[t].exc = "none" /\ resp'[t].opcode = 255)
             => /\ result'[t] = "ok"
                /\ active_request' = FALSE
                /\ stream_reader' = stream_reader
                /\ stream_writer' = stream_writer
                /\ \A s \in 1..Len(socks) : socks'[s].state = socks[s].state
          /\ (pc[t] = "idle" /\ op'[t] = "request" /\ ~active_request
                /\ \E u \in Tasks : DeviceErrorOn(u))
             => /\ pc'[t] = "w_draining"
                /\ wsock'[t] = stream_writer
                /\ Len(socks') = Len(socks)
                /\ stream_writer' = stream_writer
                /\ stream_reader' = stream_reader]_vars

\* C8 witness: a call returned an opcode 255 response and the call after it
\* wrote its request on the same, only, socket.
C8_Witness ==
    \E t, u \in Tasks :
        /\ result[t] = "ok" /\ resp[t].opcode = 255
        /\ op[u] = "request" /\ wsock[u] = tsock[t]
        /\ Len(socks) = 1
        /\ socks[1].tx = <<t, u>>
        /\ socks[1].state = "open"

\* The body of a frame, as the length byte delimits it.
BodyOf(raw) == Slice(raw, 6, 6 + At(raw, 5))

\* C9: a response with opcode 255 is surfaced by every typed wrapper as
\* ROCErrorResponseError carrying every (error_code, cause_byte_offset) pair
\* of the body in order.
C9_DeviceErrorSurfaced ==
    (f_stage = "done" /\ Len(f_raw) >= 8 /\ At(f_raw, 4) = 255)
    => /\ f_surfaced.kind = "raise"
       /\ f_surfaced.exc = "ROCErrorResponseError"
       /\ f_surfaced.data.errors = ErrorPairs(BodyOf(f_raw))

\* A whole frame of a registered opcode other than 255 whose length is 0.
EmptySuccessFrame(raw) ==
    /\ Len(raw) = 8
    /\ At(raw, 4) \in RegisteredOpcodes \ {255}
    /\ At(raw, 5) = 0

\* C10: a response of length 0 with a successful envelope is surfaced by
\* every typed wrapper as ROCEmptyDataError, which an `except` for
\* ROCErrorResponseError does not catch, nor the other way round.
C10_EmptyResponseDistinct ==
    (f_stage = "done" /\ EmptySuccessFrame(f_raw))
    => /\ f_surfaced.kind = "raise"
       /\ f_surfaced.exc = "ROCEmptyDataError"
       /\ ~IsInstance(f_surfaced.exc, "ROCErrorResponseError")
       /\ ~IsInstance("ROCErrorResponseError", f_surfaced.exc)

\* C10 witness: get_alarm_data ended on an opcode 118 frame of length 0.
C10_Witness ==
    /\ f_stage = "done"
    /\ f_wrapper = "get_alarm_data"
    /\ f_raw = ResponseFrame(118, <<>>)
    /\ f_surfaced.exc = "ROCEmptyDataError"

\* C11: a Response returned by make_opcode_request carries the opcode of the
\* request that was sent or 255, never another registered opcode.
C11_ResponseOpcodeMatches ==
    (f_stage # "call" /\ f_response.exc = "none")
    => f_response.opcode \in {WrapperOpcode[f_wrapper], 255}

\* The two trailing bytes of a whole frame are the crc (lsb, msb) of the
\* bytes before them.
CrcMatches(raw) ==
    LET head == Slice(raw, 0, Len(raw) - 2)
    IN  /\ At(raw, Len(raw) - 2) = crc_lsb(head)
        /\ At(raw, Len(raw) - 1) = crc_msb(head)

\* A buffer that holds header, declared body and two trailing bytes.
WholeFrame(raw) == Len(raw) >= 6 /\ Len(raw) = 6 + At(raw, 5) + 2

\* C12: a whole frame whose trailing bytes are not the crc of the bytes
\* before them is never decoded into a Response.
C12_CrcMismatchRejected ==
    (f_stage # "call" /\ WholeFrame(f_raw) /\ ~CrcMatches(f_raw))
    => f_response.exc # "none"

\* A buffer shorter than 6 + length + 2 bytes.
TooShort(raw) == Len(raw) < 6 \/ Len(raw) < 6 + At(raw, 5) + 2

\* C13: a buffer shorter than 6 + length + 2 bytes is never decoded into a
\* Response.
C13_ShortFrameRejected ==
    (f_stage # "call" /\ TooShort(f_raw)) => f_response.exc # "none"

\* C14: decoding dispatches on byte 4: a frame whose opcode is one of 6, 7,
\* 50, 105, 108, 118, 119, 135, 136, 137, 138, 139, 167, 180, 206, 255 goes
\* to the response data class registered for it, and a frame with any other
\* opcode fails with the lookup's KeyError and is not decoded.
C14_DispatchOnOpcode ==
    (f_stage # "call" /\ Len(f_raw) >= 5)
    => IF At(f_raw, 4) \in {6, 7, 50, 105, 108, 118, 119, 135, 136, 137, 138,
                            139, 167, 180, 206, 255}
       THEN /\ f_response.exc = "none"
               => /\ f_response.opcode = At(f_raw, 4)
                  /\ f_response.cls = ResponseDataClass(At(f_raw, 4))
            /\ (Len(f_raw) >= 6 /\ At(f_raw, 5) = 0) => f_response.exc = "none"
       ELSE f_response.exc = "KeyError"

\* C14 witness: a wrapper ended on an opcode 10 frame with the lookup's
\* KeyError, nothing decoded.
C14_Witness ==
    /\ f_stage = "done"
    /\ f_raw = ResponseFrame(10, <<4>>)
    /\ f_response.exc = "KeyError"
    /\ f_surfaced = Raises("KeyError", NoneData)

\* C17: an opcode 180 response with an item whose point type is absent from
\* the registry is decoded all the same: the Response holds as many values
\* as the count byte says and the item's slot carries the unknown number.
C17_UnknownPointTypeDecoded ==
    (f_stage # "call" /\ f_raw \in UnknownTypeFrames)
    => /\ f_response.exc = "none"
       /\ Len(f_response.data.values) = At(f_raw, 6)
       /\ \E k \in 1..Len(f_response.data.values) :
              PointTypeNotFound(f_response.data.values[k].point_type)

\* The analog input points of the io_map, by physical location.
AnalogInputLocations ==
    {loc \in DOMAIN io_definition.io_map :
        io_definition.io_map[loc].point_type = AnalogInputs}

\* C18: initialize_io_definition sends opcode 50 for the logical numbers,
\* opcode 50 for the point types, then one opcode 180 read of POINT_TAG_ID
\* for exactly the analog input points; the definition is defined only
\* when all three have succeeded and is not defined when a step failed.
C18_IODefinitionOrder ==
    /\ Len(i_sent) <= 3
    /\ Len(i_sent) >= 1 => i_sent[1] = IOLocationRequest("LOGICAL_NUMBER")
    /\ Len(i_sent) >= 2 => i_sent[2] = IOLocationRequest("IO_POINT_TYPE")
    /\ Len(i_sent) = 3
       => /\ i_sent[3].opcode = 180
          /\ Len(i_sent[3].tlps) = Cardinality(AnalogInputLocations)
          /\ \A k \in 1..Len(i_sent[3].tlps) :
                /\ i_sent[3].tlps[k].point_type = AnalogInputs
                /\ i_sent[3].tlps[k].parameter = POINT_TAG_ID
                /\ i_sent[3].tlps[k].logical_number \in AnalogInputLocations
          /\ \A loc \in AnalogInputLocations :
                \E k \in 1..Len(i_sent[3].tlps) :
                    i_sent[3].tlps[k].logical_number = loc
    /\ io_definition.defined
       => /\ i_pc = "done"
          /\ Len(i_sent) = 3
          /\ io_definition.logical_numbers_uploaded
          /\ io_definition.point_types_uploaded
          /\ io_definition.point_tag_ids_uploaded
    /\ i_pc = "failed" => (~io_definition.defined /\ i_result # "none")

\* C18 witness: the initialisation ended after its three requests, the
\* third for the one analog input point, whose tag "AI1" is stored.
C18_Witness ==
    /\ i_pc = "done"
    /\ io_definition.defined
    /\ Len(i_sent) = 3
    /\ i_sent[3].tlps = <<[point_type |-> AnalogInputs, logical_number |-> 0,
                            parameter |-> POINT_TAG_ID]>>
    /\ io_definition.io_map[0].point_tag_id = <<65, 73, 49>>

C20_CrcCheckValue ==
    /\ c_crc # NoCrc
       => /\ c_crc.value \in 0..65535
          /\ c_crc.lsb \in 0..255
          /\ c_crc.msb \in 0..255
          /\ c_crc.value = c_crc.lsb + 256 * c_crc.msb
          /\ c_data = CheckString
             => (c_crc.value = 19255 /\ c_crc.lsb = 55 /\ c_crc.msb = 75)
    /\ c_packet # <<>>
       => /\ Len(c_packet) = 6 + c_packet[6] + 2
          /\ c_packet[5] = c_request.opcode
          /\ crc_value(c_packet) = 0
          /\ (c_crc # NoCrc /\ c_data = SubSeq(c_packet, 1, Len(c_packet) - 2))
             => /\ c_packet[Len(c_packet) - 1] = c_crc.lsb
                /\ c_packet[Len(c_packet)] = c_crc.msb

\* C20 witness: the crc of "123456789" was read as 0x4B37 and a request
\* for the logical numbers was turned into bytes.
C20_Witness ==
    /\ c_data = CheckString
    /\ c_crc.value = 19255
    /\ c_request = IOLocationRequest("LOGICAL_NUMBER")
    /\ Len(c_packet) = 9


\* ---------------------------------------------------------------------
\* C15, C16: streams
\* ---------------------------------------------------------------------

\* The positions of a task inside make_opcode_request.
InRequest == {"w_connecting", "w_draining", "r_connecting", "r_reading"}

\* C15: no retry. In every step a task writes at most one request frame,
\* and none while its call is waiting for drain() or for the response, so
\* one call of make_opcode_request writes at most one frame; a direct call
\* that ends goes to the caller with its outcome; a stream whose exchange
\* ends without being cancelled either yields the decoded values or is
\* done with the error of that exchange (the decode error when decoding
\* failed); and a stream that is done writes nothing more.
C15_NoRetry ==
    [][\A t \in Tasks :
        /\ WritesIn(socks', t) <= WritesIn(socks, t) + 1
        /\ pc[t] \in {"w_draining", "r_connecting", "r_reading"}
              => WritesIn(socks', t) = WritesIn(socks, t)
        /\ (op[t] = "request" /\ pc[t] \in InRequest /\ pc'[t] \notin InRequest)
              => /\ pc'[t] = "done"
                 /\ result'[t] # "none"
                 /\ (pc[t] = "r_reading" /\ ~cancelling'[t] /\ resp'[t].exc # "none"
                       /\ resp'[t] # resp[t])
                      => result'[t] = resp'[t].exc
        /\ (op[t] \in StreamOps /\ pc[t] \in InRequest \cup {"s_ready", "s_sleeping"}
              /\ pc'[t] \notin InRequest /\ pc'[t] # pc[t] /\ ~cancelling'[t])
              => \/ /\ pc'[t] = "s_yield"
                    /\ pc[t] = "r_reading"
                    /\ resp'[t].exc = "none"
                    /\ resp'[t].data.type = "ParameterData"
                 \/ /\ pc'[t] = "done"
                    /\ result'[t] \notin {"none", "ok", "StopAsyncIteration",
                                        "GeneratorExit"}
                    /\ (pc[t] = "r_reading" /\ resp'[t].exc # "none")
                          => result'[t] = resp'[t].exc
        /\ (op[t] \in StreamOps /\ pc[t] = "done")
              => pc'[t] = "done" /\ WritesIn(socks', t) = WritesIn(socks, t)]_vars

\* C15: a stream has yielded a value, its second exchange failed in the
\* read, and the stream is done with that error after two request frames.
C15_Witness ==
    \E t \in Tasks :
        /\ op[t] \in StreamOps
        /\ pc[t] = "done"
        /\ result[t] = "ConnectionError/read"
        /\ WritesIn(socks, t) = 2
        /\ ~cancelling[t]

\* C16: the step that cancels a stream inside an exchange or during the
\* sleep between polls ends it with StopAsyncIteration, no error for the
\* consumer, and writes no request; a cancelled stream stays ended and
\* writes no request afterwards.
C16_CancelEndsStream ==
    [][\A t \in Tasks :
        /\ (op[t] \in StreamOps /\ ~cancelling[t] /\ cancelling'[t])
              => /\ pc[t] \in InRequest \cup {"s_sleeping"}
                 /\ pc'[t] = "done"
                 /\ result'[t] = "StopAsyncIteration"
                 /\ WritesIn(socks', t) = WritesIn(socks, t)
        /\ (op[t] \in StreamOps /\ cancelling[t])
              => /\ pc'[t] = "done"
                 /\ result'[t] = "StopAsyncIteration"
                 /\ WritesIn(socks', t) = WritesIn(socks, t)]_vars

\* C16: a stream was cancelled while its second request was written and
\* not yet answered, and it ended without an error.
C16_Witness ==
    \E t \in Tasks :
        /\ op[t] \in StreamOps
        /\ cancelling[t]
        /\ pc[t] = "done"
        /\ result[t] = "StopAsyncIteration"
        /\ WritesIn(socks, t) = 2
        /\ \E s \in 1..Len(socks) :
              /\ socks[s].answered < Len(socks[s].tx)
              /\ socks[s].tx[Len(socks[s].tx)] = t


\* ---------------------------------------------------------------------
\* C21: the opcode 167 decoder
\* ---------------------------------------------------------------------

RECURSIVE WidthsBefore(_, _, _)
\* The sum of the widths of the i parameters of point_type that start at
\* parameter number `starting`.
WidthsBefore(point_type, starting, i) ==
    IF i = 0 THEN 0
    ELSE WidthsBefore(point_type, starting, i - 1)
         + TypeSize(PointTypesRegistry[point_type][starting + i - 1])

\* C21: an opcode 167 response whose parameters are all registered and whose
\* body holds their bytes decodes to exactly `count` values in order; value
\* i is of parameter starting_parameter + i, of the echoed point type and
\* logical number, decoded from its width bytes at body offset 4 plus the
\* widths of the values before it.
C21_ContiguousValues ==
    LET body == BodyOf(f_raw)
        n == body[3]
        st == body[4]
    IN  (/\ f_stage # "call"
         /\ f_raw \in SinglePointFrames
         /\ \A j \in 0..(n - 1) : ~ParameterNotFound(body[1], st + j)
         /\ Len(body) >= 4 + WidthsBefore(body[1], st, n))
        => /\ f_response.exc = "none"
           /\ Len(f_response.data.values) = n
           /\ \A j \in 0..(n - 1) :
                 f_response.data.values[j + 1] =
                     TLPValue(body[1], body[2], st + j,
                              UnpackValue(PointTypesRegistry[body[1]][st + j],
                                          Slice(body,
                                                4 + WidthsBefore(body[1], st, j),
                                                4 + WidthsBefore(body[1], st, j + 1))))

\* C21: read_contiguous_tlps has returned three values of parameters 1, 2
\* and 3, of widths 1, 2 and 1.
C21_Witness ==
    /\ f_stage = "done"
    /\ f_wrapper = "read_contiguous_tlps"
    /\ f_raw = ResponseFrame(167, <<103, 2, 3, 1, 7, 1, 2, 9>>)
    /\ f_surfaced.kind = "return"
    /\ Len(f_surfaced.data.values) = 3
    /\ f_surfaced.data.values[2].value = 513
    /\ f_surfaced.data.values[3].value = 9


\* ---------------------------------------------------------------------
\* C22, C23: alarm and event records
\* ---------------------------------------------------------------------

\* C22: in an opcode 118 or 119 response that announces one record, a
\* whole record of a declared kind (alarms 0..4, events 0..7) decodes to
\* one record of that kind, whatever follows it; a record of any other
\* kind raises AlarmTypeNotFoundError / EventTypeNotFoundError, even when
\* only its first byte is there.
C22_KindsDecode ==
    LET body == BodyOf(f_raw)
        alarm == At(f_raw, 4) = 118
        width == IF alarm THEN 23 ELSE 22
        code == IF alarm THEN body[6] % 64 ELSE body[6]
        declared == IF alarm THEN code \in 0..4 ELSE code \in 0..7
    IN  (f_stage # "call" /\ f_raw \in LogFrames /\ body[1] = 1 /\ Len(body) >= 6)
        => /\ (declared /\ Len(body) >= 5 + width)
                => /\ f_response.exc = "none"
                   /\ Len(f_response.data.records) = 1
                   /\ IF alarm
                      THEN f_response.data.records[1].alarm_type_code = code
                      ELSE f_response.data.records[1].event_type_code = code
           /\ ~declared
                => f_response.exc = IF alarm THEN "AlarmTypeNotFoundError"
                                    ELSE "EventTypeNotFoundError"

\* C23: a whole event record of kind 7 decodes, raw_value from record bytes
\* 11..15 and calibrated_value from record bytes 15..19.
C23_CalibratedValue ==
    LET body == BodyOf(f_raw)
        record == Slice(body, 5, 27)
    IN  (/\ f_stage # "call"
         /\ f_raw \in LogFrames
         /\ At(f_raw, 4) = 119
         /\ body[1] = 1
         /\ Len(body) >= 27
         /\ body[6] = 7)
        => /\ f_response.exc = "none"
           /\ f_response.data.records[1].raw_value.value =
                  LittleEndian(Slice(record, 11, 15))
           /\ f_response.data.records[1].calibrated_value.value =
                  LittleEndian(Slice(record, 15, 19))


\* ---------------------------------------------------------------------
\* C24: a response belongs to its request
\* ---------------------------------------------------------------------

\* C24: when make_opcode_request returns a response to task t, every reply
\* its read took from the stream was sent by the device in answer to the
\* request t wrote.  Stated for calls made one after the other: no call
\* was rejected as busy and no other request is in flight.
C24_ResponseOfOwnRequest ==
    [][\A t \in Tasks :
        (/\ op[t] = "request"
         /\ \A u \in Tasks : result[u] # "ROCConnectionError"
         /\ InFlight = {t}
         /\ pc[t] = "r_reading"
         /\ pc'[t] = "done"
         /\ result'[t] = "ok"
         /\ socks[tsock[t]].rx # <<>>)
        => \A i \in 1..Len(socks[tsock[t]].rx) :
               socks[tsock[t]].rx[i].req = t]_vars


\* ---------------------------------------------------------------------
\* C25: concurrent open_connection
\* ---------------------------------------------------------------------

\* C25: as long as no connection of the client was closed, at most one
\* connection is established, and an established connection is the one the
\* client holds.
C25_OneConnection ==
    (\A s \in 1..Len(socks) : socks[s].state = "open")
    => /\ Len(socks) <= 1
       /\ \A s \in 1..Len(socks) : stream_reader = s /\ stream_writer = s


\* ---------------------------------------------------------------------
\* C26: the in-flight flag after a call
\* ---------------------------------------------------------------------

\* C26: whenever no call is in progress on the client the in-flight flag is
\* clear, whatever the outcomes of the calls that ended; and a request
\* submitted while no other call is in progress is not rejected as busy.
C26_FlagClearAfterCall ==
    [][/\ (\A t \in Tasks : pc'[t] \in {"idle", "done"}) => active_request' = FALSE
       /\ \A t \in Tasks :
            (/\ pc[t] = "idle"
             /\ pc'[t] # "idle"
             /\ op'[t] = "request"
             /\ \A u \in Tasks : pc[u] \in {"idle", "done"})
            => result'[t] # "ROCConnectionError"]_vars

\* C26: the first call was cancelled, and the call made after it has written
\* its request and is reading the response.
C26_Witness ==
    /\ pc[1] = "done"
    /\ result[1] = "CancelledError"
    /\ pc[2] = "r_reading"
    /\ pc[3] = "idle"
    /\ active_request = TRUE


\* ---------------------------------------------------------------------
\* C27: tag enrichment once the I/O definition is defined
\* ---------------------------------------------------------------------

\* C27: once the I/O definition is defined, a read wrapper whose exchange
\* succeeded and whose response passed validation returns its values: it
\* does not raise while the values are given their tag names.
C27_EnrichmentNeverFails ==
    (/\ io_definition.defined
     /\ f_stage = "done"
     /\ f_wrapper \in ValueWrappers
     /\ f_response.exc = "none"
     /\ WrapperValidate(f_wrapper, f_response).kind = "return"
     /\ WrapperValidate(f_wrapper, f_response).data.values # <<>>)
    => f_surfaced.kind = "return"


----------------------------------------------------------------------------
(* SpecHistory: initialize_history_definition, get_daily_history_data and
   get_config_json called one after the other on one client. *)

\* The number of history segments initialize_history_definition reads.
NumberOfHistorySegments == 13

\* The largest segment_size the device reports for a segment.
MaxSegmentSize == 1

\* The segments for which the device reports points.
SegmentsWithPoints == {0, NumberOfHistorySegments - 1}

\* The exceptions read_contiguous_tlps raises to the history methods.
HistoryReadErrors == {"ConnectionError", "ROCDataError"}

\* The methods that use the history definition.
HistoryMethods ==
    {"initialize_history_definition", "get_daily_history_data",
     "get_config_json"}

\* get_history_segment_configuration: the read of the 14 parameters of
\* segment segment_index.
SegmentConfigurationRead(segment_index) ==
    [point_type |-> "HISTORY_SEGMENT_CONFIGURATION", segment |-> segment_index,
     logical_number |-> segment_index, number_of_parameters |-> 14]

\* get_history_segment_point_configuration: the read of the 5 parameters
\* of point point_number of segment segment_index.
PointConfigurationRead(segment_index, point_number) ==
    [point_type |-> "HISTORY_SEGMENT_POINT_CONFIGURATION",
     segment |-> segment_index,
     logical_number |-> point_number, number_of_parameters |-> 5]

\* The range(13) loop as it would be if it ended after its first segment.
SegmentsReadFirst(i) == i >= 1

\* The range(13) loop of initialize_history_definition has run out.
SegmentsRead(i) == i = NumberOfHistorySegments

\* A history method has raised e.
HistoryFail(e) ==
    /\ h_pc' = "idle"
    /\ h_result' = e

\* initialize_history_definition has returned to the method that called
\* it: the rest of get_daily_history_data or get_config_json follows.
HistoryInitialized ==
    IF h_op = "initialize_history_definition"
    THEN h_pc' = "idle" /\ h_result' = "ok"
    ELSE h_pc' = "rest" /\ UNCHANGED h_result

\* get_history_segment_configuration has returned segment_config for
\* segment h_i: it is put in the local map, and either the next segment is
\* read or the local map is stored in the history definition.
SegmentDone(segment_config) ==
    LET definitions ==
            [k \in DOMAIN segment_definitions \cup {h_i} |->
                IF k = h_i THEN segment_config ELSE segment_definitions[k]]
    IN  /\ segment_definitions' = definitions
        /\ h_i' = h_i + 1
        /\ h_point' = 0
        /\ h_segment_config' = NoSegmentConfig
        /\ IF SegmentsRead(h_i + 1)
           THEN /\ history_definition' =
                      [history_definition EXCEPT
                          !.history_configuration_map = definitions]
                /\ HistoryInitialized
                /\ UNCHANGED h_sent
           ELSE /\ h_sent' = Append(h_sent, SegmentConfigurationRead(h_i + 1))
                /\ h_pc' = "segment"
                /\ UNCHANGED <<history_definition, h_result>>

\* A history method is called. initialize_history_definition, and the two
\* others while the definition is not defined, start the loop over the
\* segments with the read of segment 0.
HistoryCall ==
    /\ h_pc = "idle"
    /\ \E m \in HistoryMethods :
          /\ h_op' = m
          /\ h_result' = "none"
          /\ IF m = "initialize_history_definition" \/ ~history_definition.defined
             THEN /\ segment_definitions' = EmptyMap
                  /\ h_i' = 0
                  /\ h_point' = 0
                  /\ h_segment_config' = NoSegmentConfig
                  /\ h_sent' = <<SegmentConfigurationRead(0)>>
                  /\ h_pc' = "segment"
             ELSE /\ h_sent' = <<>>
                  /\ h_pc' = "rest"
                  /\ UNCHANGED <<segment_definitions, h_i, h_point,
                                 h_segment_config>>
    /\ UNCHANGED history_definition
    /\ UNCHANGED <<clientVars, facadeVars, ioVars, crcVars>>

\* The read of the segment configuration has ended: it raised, or it gave
\* the segment_size, and the points of the segment are read from point 0.
HistorySegmentRead ==
    /\ h_pc = "segment"
    /\ \/ /\ \E e \in HistoryReadErrors : HistoryFail(e)
          /\ UNCHANGED <<history_definition, h_i, h_point, h_segment_config,
                         segment_definitions, h_sent>>
       \/ \E segment_size \in
                IF h_i \in SegmentsWithPoints THEN 0..MaxSegmentSize ELSE {0} :
             LET segment_config ==
                     [segment_number |-> h_i, segment_size |-> segment_size,
                      point_configurations |-> <<>>]
             IN  IF segment_size = 0
                 THEN SegmentDone(segment_config)
                 ELSE /\ h_segment_config' = segment_config
                      /\ h_point' = 0
                      /\ h_sent' = Append(h_sent, PointConfigurationRead(h_i, 0))
                      /\ h_pc' = "point"
                      /\ UNCHANGED <<history_definition, h_i,
                                     segment_definitions, h_result>>
    /\ UNCHANGED h_op
    /\ UNCHANGED <<clientVars, facadeVars, ioVars, crcVars>>

\* The read of a point configuration has ended: it raised, or the point
\* configuration is appended to the segment's (undefined points included).
HistoryPointRead ==
    /\ h_pc = "point"
    /\ \/ /\ \E e \in HistoryReadErrors : HistoryFail(e)
          /\ UNCHANGED <<history_definition, h_i, h_point, h_segment_config,
                         segment_definitions, h_sent>>
       \/ \E logged \in BOOLEAN :
             LET point_config ==
                     [history_segment |-> h_i, history_point_number |-> h_point,
                      history_log_point |-> logged]
                 segment_config ==
                     [h_segment_config EXCEPT
                         !.point_configurations = Append(@, point_config)]
             IN  IF h_point + 1 < h_segment_config.segment_size
                 THEN /\ h_segment_config' = segment_config
                      /\ h_point' = h_point + 1
                      /\ h_sent' = Append(h_sent,
                                      PointConfigurationRead(h_i, h_point + 1))
                      /\ UNCHANGED <<history_definition, h_i, h_pc,
                                     segment_definitions, h_result>>
                 ELSE SegmentDone(segment_config)
    /\ UNCHANGED h_op
    /\ UNCHANGED <<clientVars, facadeVars, ioVars, crcVars>>

\* What follows the initialisation in the method that was called:
\* get_daily_history_data calls get_tlp_by_point(segment_index=...), whose
\* parameter is named history_segment; get_config_json goes on to the
\* other definitions and ends with the JSON or with their exception.
HistoryRest ==
    /\ h_pc = "rest"
    /\ h_pc' = "idle"
    /\ IF h_op = "get_daily_history_data"
       THEN h_result' = "TypeError"
       ELSE h_result' \in {"ok"} \cup HistoryReadErrors
    /\ UNCHANGED <<history_definition, h_op, h_i, h_point, h_segment_config,
                   segment_definitions, h_sent>>
    /\ UNCHANGED <<clientVars, facadeVars, ioVars, crcVars>>

NextHistory ==
    \/ HistoryCall
    \/ HistorySegmentRead
    \/ HistoryPointRead
    \/ HistoryRest

SpecHistory == Init /\ [][NextHistory]_vars

\* ---------------------------------------------------------------------
\* C28: the history definition is marked defined
\* ---------------------------------------------------------------------

\* C28: once initialize_history_definition has stored the configuration
\* map, the history definition is marked defined, and a later call of
\* get_daily_history_data or get_config_json sends no read of the history
\* segment or history point configuration.
C28_HistoryCached ==
    [][/\ DOMAIN history_definition.history_configuration_map' # {}
          => history_definition.defined'
       /\ (/\ DOMAIN history_definition.history_configuration_map # {}
           /\ h_pc = "idle"
           /\ h_pc' # "idle"
           /\ h_op' \in {"get_daily_history_data", "get_config_json"})
          => h_sent' = <<>>]_vars

\* ---------------------------------------------------------------------
\* C29: the stored map is replaced only by a whole one
\* ---------------------------------------------------------------------

\* C29: the stored history_configuration_map changes only in the step
\* that ends the loop over the segments, and then it holds all the 13
\* segments; a step in which a read fails leaves it as it was.
C29_MapReplacedWhole ==
    [][/\ history_definition.history_configuration_map'
              # history_definition.history_configuration_map
          => /\ DOMAIN history_definition.history_configuration_map'
                    = 0..(NumberOfHistorySegments - 1)
             /\ h_result' \notin HistoryReadErrors
             /\ h_i' = NumberOfHistorySegments
       /\ h_result' \in HistoryReadErrors
          => history_definition.history_configuration_map'
                 = history_definition.history_configuration_map]_vars

\* C29: a second initialisation failed at its last segment after it had
\* read a segment 0 that differs from the stored one; the stored map still
\* has the segment 0 of the first initialisation.
C29_Witness ==
    /\ h_op = "initialize_history_definition"
    /\ h_pc = "idle"
    /\ h_result \in HistoryReadErrors
    /\ h_i = NumberOfHistorySegments - 1
    /\ DOMAIN history_definition.history_configuration_map
           = 0..(NumberOfHistorySegments - 1)
    /\ 0 \in DOMAIN segment_definitions
    /\ segment_definitions[0] # history_definition.history_configuration_map[0]


----------------------------------------------------------------------------
(* SpecIOMethods: the I/O methods of the client called one after the other,
   in any order, each of their exchanges ending with a response read or
   with a transport error. *)

\* The methods that read the I/O definition.
IOMethods ==
    {"get_io_logical_numbers", "get_io_point_types",
     "get_physical_io_definition", "get_io_point_tag_ids",
     "initialize_io_definition"}

\* An I/O method is called once the one before it has ended: it sends its
\* first request, or get_io_point_tag_ids raises before it sends any.
IOMethodCall ==
    /\ i_pc \in {"idle", "done", "failed"}
    /\ \E m \in IOMethods :
          /\ i_method' = m
          /\ IF m = "get_io_point_types"
             THEN /\ i_sent' = <<IOLocationRequest("IO_POINT_TYPE")>>
                  /\ i_pc' = "point_types"
                  /\ i_result' = "none"
             ELSE IF m # "get_io_point_tag_ids"
             THEN /\ i_sent' = <<IOLocationRequest("LOGICAL_NUMBER")>>
                  /\ i_pc' = "logical_numbers"
                  /\ i_result' = "none"
             ELSE IF ~TagIdsMayStart(io_definition)
             THEN /\ i_sent' = <<>>
                  /\ IOFail("ROCError")
             ELSE /\ i_sent' =
                        <<ParameterRequest(TagTLPs(io_definition.io_map, 0))>>
                  /\ i_pc' = "point_tag_ids"
                  /\ i_result' = "none"
    /\ UNCHANGED io_definition
    /\ UNCHANGED <<clientVars, facadeVars, crcVars, histVars>>

NextIOMethods ==
    \/ IOMethodCall
    \/ IOLogicalNumbers
    \/ IOPointTypes
    \/ IOPointTagIds

SpecIOMethods == Init /\ [][NextIOMethods]_vars

\* ---------------------------------------------------------------------
\* C30: the flags of the I/O definition
\* ---------------------------------------------------------------------

\* C30: after any sequence of I/O methods, a defined I/O definition has
\* its logical numbers, point types and tags uploaded, uploaded tags imply
\* uploaded point types, and get_io_point_tag_ids called while the point
\* types are not uploaded raises ROCError without sending a request.
C30_FlagsConsistent ==
    [][/\ io_definition.defined' =>
            /\ io_definition.logical_numbers_uploaded'
            /\ io_definition.point_types_uploaded'
            /\ io_definition.point_tag_ids_uploaded'
       /\ io_definition.point_tag_ids_uploaded' =>
            io_definition.point_types_uploaded'
       /\ (/\ i_pc \in {"idle", "done", "failed"}
           /\ i_method' = "get_io_point_tag_ids"
           /\ i_pc' # "done"
           /\ ~io_definition.point_types_uploaded)
          => /\ i_pc' = "failed"
             /\ i_result' = "ROCError"
             /\ i_sent' = <<>>
             /\ io_definition' = io_definition]_vars

\* C30: get_io_point_tag_ids was called after get_io_logical_numbers alone
\* and raised without sending; the logical numbers are uploaded, the point
\* types are not.
C30_Witness ==
    /\ i_method = "get_io_point_tag_ids"
    /\ i_pc = "failed"
    /\ i_result = "ROCError"
    /\ i_sent = <<>>
    /\ io_definition.logical_numbers_uploaded
    /\ ~io_definition.point_types_uploaded

====
